---- MODULE Spec2Model ----
(***************************************************************************)
(* A model of the purple-check agent: the resumable processing engine of   *)
(* src/src/process.py (process_posts and the stages it calls) and the      *)
(* paginated harvester of src/src/fetch.py (fetch_subreddit_posts,         *)
(* fetch_and_save_posts).                                                  *)
(*                                                                         *)
(* The two programs are separate processes that share no state, so each    *)
(* has its own specification: SpecProcess and SpecHarvest.  SpecAgent is   *)
(* the engine variant of src/src/agent.py; SpecItemStore and SpecFeedback  *)
(* apply the two storage writes (posts_db.insert_post, insert_feedback) in *)
(* arbitrary sequences.  The functions the two programs call are taken on  *)
(* their own: SpecFetchComments (fetch_comments with its flattener),       *)
(* SpecRequest (make_reddit_request), SpecMain (main of the harvester),    *)
(* SpecScoring (analyze_sentiment) and SpecLLMCall (LLMClient._call of     *)
(* src/src/llm.py).  SpecProcessLive is one run of the engine with weak    *)
(* fairness of the steps the run takes by itself.                          *)
(***************************************************************************)
EXTENDS Integers, Sequences, FiniteSets, TLC

(***************************************************************************)
(* Bounds of the model.                                                    *)
(***************************************************************************)
\* number of posts in merged_posts.json
NPosts == 5
\* largest limit argument tried (besides "no limit")
MaxLimit == 2
\* number of posts the subreddits hold
NItems == 3
\* most children on one page of the listing (REQUEST_LIMIT in the code)
PageSize == 1
\* most pages the listing API serves in one harvest call
MaxPages == 2
\* most calls in a sequence of insert_post calls
MaxCalls == 3
\* most writes in a sequence of Result Sink writes
MaxWrites == 2
\* number of nodes in the comment tree of a response
NNodes == 3
\* largest max_retries llm_config.json gives the inference client
MaxConfiguredRetries == 3

(***************************************************************************)
(* Program constants.                                                      *)
(***************************************************************************)
\* process.py:391  if idx % 5 == 0: save_progress(processed_ids)
SAVE_EVERY == 5
\* fetch.py:19
MAX_RETRIES == 3

Null == "null"
\* limit=None; "if limit:" treats 0 the same way
NoLimit == 0
\* no item yet
NoPost == 0

(***************************************************************************)
(* State of the processing engine.                                         *)
(***************************************************************************)
VARIABLES
    progress_file,     \* content of PROGRESS_FILE on disk: a set of post ids
    feedback,          \* rows of the feedback table (the Result Sink)
    limit,             \* the limit argument of process_posts
    pc,                \* position of the run
    processed_ids,     \* the in-memory Checkpoint Set
    posts_to_process,  \* the list selected at the start of the run
    idx,               \* enumerate index of the current item (from 1)
    post_id,           \* id of the item being processed (or processed last)
    temp_dir,          \* TRUE while the temporary directory of the run's item exists
    llm_response,      \* kind of result the last inference call of the item produced
    is_relevant, username,
    sentiment, confidence,
    exit,              \* how the try block was left: what the finally clause resumes
    stop_reason,       \* why the run stopped
    \* history variables: they record what the run did, the code does not read them
    loaded,            \* the set load_progress returned at the start of the run
    attempted,         \* ids of the items whose loop body was entered, in order
    completed,         \* ids of the items that reached Done or Skipped in this run
    stages,            \* stages executed for the current item
    failed_stage,      \* stage whose exception reached the per-item handler
    crashed            \* items the previous run had started and not persisted when
                       \* the process died

pvars == <<progress_file, feedback, limit, pc, processed_ids, posts_to_process,
           idx, post_id, temp_dir, llm_response, is_relevant, username, sentiment,
           confidence, exit, stop_reason, loaded, attempted, completed, stages,
           failed_stage, crashed>>

(***************************************************************************)
(* State of the harvester.                                                 *)
(***************************************************************************)
VARIABLES
    fetch_state,       \* content of FETCH_STATE_FILE: subreddit -> cursor record
    item_store,        \* rows of the posts table: [id, payload]
    hpc,               \* position of fetch_and_save_posts
    subreddit,         \* the source of the current cycle
    last_post_id,      \* the watermark the cycle started from
    all_new_posts,     \* names of the posts accepted so far, in arrival order
    after_token,       \* continuation token of the last page
    newest_post_id, newest_timestamp,
    \* history variables
    requests,          \* the parameter of every page request of the cycle
    overlap,           \* the API returned on a page an item of an earlier page
    page_failed,       \* a page fetch of the cycle raised after its retries
    missed,            \* the items the source held on the page that failed
    cycle_result,      \* how the cycle ended
    new_count,         \* what fetch_and_save_posts returned (fetch.py:253)
    last_page,         \* history: what the response to the last page request held
    insert_calls       \* history: the post_data of every insert_post call so far

hvars == <<fetch_state, item_store, hpc, subreddit, last_post_id, all_new_posts,
           after_token, newest_post_id, newest_timestamp, requests, overlap,
           page_failed, missed, cycle_result, new_count, last_page, insert_calls>>

(***************************************************************************)
(* State of the Result Sink taken on its own.                              *)
(***************************************************************************)
VARIABLES
    now,               \* the database clock, in seconds (CURRENT_TIMESTAMP)
    write_calls        \* history: the row of every Result Sink write so far

svars == <<now, write_calls>>

(***************************************************************************)
(* State of the two functions that run curlfire: fetch_comments, with the  *)
(* comment tree of the response and the list extract_comments builds from  *)
(* it, and make_reddit_request, with its retry counter.                    *)
(***************************************************************************)
VARIABLES
    transport,         \* what the k-th run of curlfire for the URL ends with
    attempts,          \* history: the number of curlfire runs made so far
    raised,            \* the exception that left the function, if any
    tree,              \* the comment tree of the response (data[1])
    comments,          \* the list fetch_comments returns
    fpc,               \* position of fetch_comments
    retry_count,       \* the retry_count argument of the innermost call
    rpc                \* position of make_reddit_request

fvars == <<transport, attempts, raised, tree, comments, fpc, retry_count, rpc>>

(***************************************************************************)
(* State of main of the harvester.                                         *)
(***************************************************************************)
VARIABLES
    plan,              \* how the harvest cycle of each source will end
    watermarked,       \* the sources the loaded fetch state has a last_post_id for
    source_index,      \* position of the loop in the list of sources
    mpc,               \* position of main
    harvested,         \* history: the sources fetch_and_save_posts was called for
    caught,            \* history: the sources whose exception main caught
    total_new_posts

mvars == <<plan, watermarked, source_index, mpc, harvested, caught, total_new_posts>>

(***************************************************************************)
(* State of a call of analyze_sentiment made on its own.                   *)
(***************************************************************************)
VARIABLES
    actual_sentiments, \* the value analyze_sentiment returned
    lpc                \* position of the call

lvars == <<actual_sentiments, lpc>>

(***************************************************************************)
(* State of one call of LLMClient._call.                                   *)
(***************************************************************************)
VARIABLES
    max_retries,       \* self.max_retries, from llm_config.json
    llm_outcomes,      \* input: how the k-th call of _make_request ends
    attempt,           \* the loop variable of _call
    made,              \* history: the number of calls of _make_request
    last_error,        \* the outcome kept in last_error, if any
    call_raised,       \* the exception that left _call, if any
    cpc                \* position of the call

cvars == <<max_retries, llm_outcomes, attempt, made, last_error, call_raised, cpc>>

vars == <<pvars, hvars, svars, fvars, mvars, lvars, cvars>>

(***************************************************************************)
(* Input data: merged_posts.json.  tools/extract_posts.py writes it sorted *)
(* and without duplicates, so the ids are distinct.                        *)
(***************************************************************************)
PostIds == 1..NPosts

all_posts == [i \in 1..NPosts |-> i]

\* post.get("author", "unknown"): the posts of the input are by one author, so
\* that different posts can write the same (giver, receiver) pair
Author(id) == "alice"

Limits == {NoLimit} \cup (1..MaxLimit)

\* the progress files a first run may find: the ids of the resume example {1, 3}
InitialProgress == SUBSET {1, 3}

Range(s) == {s[i] : i \in 1..Len(s)}

(***************************************************************************)
(* utils.py / process.py: load_progress, save_progress.                    *)
(***************************************************************************)
load_progress(file) == file

\* a save that writes only the identifiers added since the load
save_progress_new_only(ids) == ids \ loaded

save_progress(ids) == ids

(***************************************************************************)
(* process.py:336-339: the list comprehension and the limit slice.         *)
(***************************************************************************)
\* a filter that lets every post through
NotProcessedNoFilter(ids, id) == TRUE

NotProcessed(ids, id) == id \notin ids

Unprocessed(posts, ids) ==
    LET F[i \in 0..Len(posts)] ==
            IF i = 0 THEN <<>>
            ELSE IF NotProcessed(ids, posts[i]) THEN Append(F[i - 1], posts[i])
                 ELSE F[i - 1]
    IN F[Len(posts)]

Truncate(posts, lim) ==
    IF lim # NoLimit
    THEN SubSeq(posts, 1, IF lim < Len(posts) THEN lim ELSE Len(posts))
    ELSE posts

PostsToProcess(posts, ids, lim) == Truncate(Unprocessed(posts, ids), lim)

(***************************************************************************)
(* The inference service.  A call raises, or returns text: prose without   *)
(* braces, a brace span that json.loads rejects, or a JSON object.         *)
(***************************************************************************)
RawUsernames == {"@Shop", "shop"}

\* process.py:203  username.strip().lower().replace("@", "")
Normalize(u) == IF u \in {"@Shop", "shop"} THEN "shop" ELSE u

FailureKinds == {"raise", "prose", "malformed"}

ClassifyResponses ==
    {[kind |-> k] : k \in FailureKinds}
    \cup {[kind |-> "json", is_relevant |-> r, username |-> u] :
              r \in {"true", "false", "missing"}, u \in RawUsernames \cup {Null}}

ScoreResponses ==
    {[kind |-> k] : k \in FailureKinds}
    \cup {[kind |-> "json", sentiment |-> s, confidence |-> c] :
              s \in {"negative", "mixed", "missing"}, c \in {"high", "missing"}}

\* a relevance stage that treats an unusable answer as "relevant"
extract_instagram_username_default_relevant(resp) ==
    IF resp.kind = "json"
    THEN <<resp.is_relevant = "true",
           IF resp.username # Null THEN Normalize(resp.username) ELSE Null>>
    ELSE <<TRUE, Null>>

\* process.py:188-211: the pair (is_relevant, username)
extract_instagram_username(resp) ==
    IF resp.kind = "json"
    THEN <<resp.is_relevant = "true",
           IF resp.username # Null THEN Normalize(resp.username) ELSE Null>>
    ELSE <<FALSE, Null>>

\* a scoring stage that reports a failed call as negative feedback
analyze_sentiment_failure_negative(resp) ==
    IF resp.kind = "json"
    THEN <<IF resp.sentiment = "missing" THEN "neutral" ELSE resp.sentiment,
           IF resp.confidence = "missing" THEN "low" ELSE resp.confidence>>
    ELSE <<"negative", "high">>

\* process.py:248-265: the pair (sentiment, confidence)
analyze_sentiment(resp) ==
    IF resp.kind = "json"
    THEN <<IF resp.sentiment = "missing" THEN "neutral" ELSE resp.sentiment,
           IF resp.confidence = "missing" THEN "low" ELSE resp.confidence>>
    ELSE <<"neutral", "low">>

(***************************************************************************)
(* The Result Sink: process.py:268-322 insert_feedback.                    *)
(***************************************************************************)
\* the values the sentiment argument takes: the three labels of the table and
\* other values a JSON object of the inference service can carry under
\* "sentiment" (another word, another spelling, null)
Sentiments == {"positive", "negative", "neutral", "mixed", "Positive", Null}

\* a mapping that sends a sentiment outside the table to the negative rating
rating_map_unknown_negative(s) ==
    CASE s = "positive" -> "POSITIVE"
      [] s = "negative" -> "NEGATIVE"
      [] s = "neutral" -> "NEUTRAL"
      [] OTHER -> "NEGATIVE"

\* process.py:299-300
rating_map(s) ==
    CASE s = "positive" -> "POSITIVE"
      [] s = "negative" -> "NEGATIVE"
      [] s = "neutral" -> "NEUTRAL"
      [] OTHER -> "NEUTRAL"

\* process.py:276-277, 294, 300: the row insert_feedback builds; of the comment
\* text only the confidence line varies with the run
FeedbackRow(id, user, sent, conf) ==
    [giver |-> Author(id),
     receiver |-> IF user # Null THEN user ELSE "unknown_instagram_user",
     rating |-> rating_map(sent),
     comment |-> conf]

SamePair(r1, r2) == r1.giver = r2.giver /\ r1.receiver = r2.receiver

\* an INSERT without the ON CONFLICT clause on a table without the constraint
InsertOnly(table, row) == table \cup {row}

\* process.py:305-315  INSERT ... ON CONFLICT(giver, receiver) DO UPDATE
Upsert(table, row) == {r \in table : ~SamePair(r, row)} \cup {row}

(***************************************************************************)
(* process_posts.                                                          *)
(***************************************************************************)
InTry == {"images", "classify", "comments", "scoring", "persisting", "mark"}
Running == InTry \cup {"loop", "finally"}
Ended == {"start", "done", "stopped", "dead"}

\* the per-item locals as they are when a loop body starts
ItemLocalsUnset ==
    /\ llm_response' = Null
    /\ is_relevant' = FALSE
    /\ username' = Null
    /\ sentiment' = Null
    /\ confidence' = Null

(***************************************************************************)
(* The harvester's data: fetch.py.                                         *)
(***************************************************************************)
Subreddits == {"InstagramShops", "InstaShoppingFails"}

\* the fullnames (t3_...) of the posts the platform holds
ItemNames == 1..NItems
\* a child without "name"
NoName == 0
\* data.after is null
NoToken == 0
\* fetch_and_save_posts has not returned
NoCount == -1
\* the continuation token of a page names that page
PageToken(page) == page

\* what a post carries besides its identifier (title, score, ...): the snapshot
\* an earlier cycle stored and the snapshot the listing serves now
Payloads == {"v1", "v2"}

\* the post_data of a listed post.  The listing gives name = "t3_" + id, so one
\* number stands for both.
PostData(name) == [id |-> name, payload |-> "v2"]

\* created_utc of a post: the posts are numbered from oldest to newest
CreatedUtc(name) == name

\* the children a listing page can carry: posts, a post without a name, a comment
Children ==
    {[kind |-> "t3", name |-> n] : n \in ItemNames \cup {NoName}}
    \cup {[kind |-> "t1", name |-> 1]}

SeqsUpTo(S, n) == UNION {[1..k -> S] : k \in 0..n}

\* what make_reddit_request gives for one page: an exception after the retries,
\* a document without data.children, or a listing
PageResponses ==
    {[kind |-> k] : k \in {"error", "nodata"}}
    \cup {[kind |-> "listing", children |-> c, after |-> a] :
              c \in SeqsUpTo(Children, PageSize), a \in {"token", "null"}}

\* fetch.py:220-226: the cursor record of a source
Cursor(id, ts, total) ==
    [last_post_id |-> id, last_post_timestamp |-> ts, total_posts_fetched |-> total]

\* analyze_sentiment has not been called on its own
ScoringAtRest ==
    /\ actual_sentiments = [type |-> "none", items |-> <<>>]
    /\ lpc = "idle"

\* LLMClient._call has not been called
ClientAtRest ==
    /\ max_retries = 0
    /\ llm_outcomes = <<>>
    /\ attempt = 0
    /\ made = 0
    /\ last_error = [kind |-> "none", code |-> 0]
    /\ call_raised = [kind |-> "none", code |-> 0]
    /\ cpc = "idle"

\* main of the harvester has not been called
MainAtRest ==
    /\ plan = <<>>
    /\ watermarked = {}
    /\ source_index = 0
    /\ mpc = "idle"
    /\ harvested = <<>>
    /\ caught = <<>>
    /\ total_new_posts = 0

\* no response has arrived: there is no comment tree yet
NoTree == [parent |-> <<>>, data |-> <<>>, leaf |-> "absent"]

\* neither fetch_comments nor make_reddit_request has been called
FetchAtRest ==
    /\ transport = <<>>
    /\ attempts = 0
    /\ raised = Null
    /\ tree = NoTree
    /\ comments = <<>>
    /\ fpc = "idle"
    /\ retry_count = 0
    /\ rpc = "idle"

\* no Result Sink write has been made on its own
SinkAtRest ==
    /\ now = 0
    /\ write_calls = <<>>

\* what a page response held: children, a continuation token; or the request
\* raised
Page(items, token, failed) == [items |-> items, token |-> token, raised |-> failed]

\* no page has been requested
NoPage == Page(FALSE, FALSE, FALSE)

\* the harvester is not running
HarvestAtRest ==
    /\ last_page = NoPage
    /\ hpc = "idle"
    /\ subreddit = Null
    /\ last_post_id = NoName
    /\ all_new_posts = <<>>
    /\ after_token = NoToken
    /\ newest_post_id = NoName
    /\ newest_timestamp = 0
    /\ requests = <<>>
    /\ overlap = FALSE
    /\ page_failed = FALSE
    /\ missed = {}
    /\ cycle_result = "none"
    /\ new_count = NoCount
    /\ insert_calls = <<>>

\* no run has started: the files are as an earlier run left them
InitProcess ==
    /\ progress_file \in InitialProgress
    /\ feedback = {}
    /\ limit \in Limits
    /\ fetch_state = <<>>
    /\ item_store = {}
    /\ HarvestAtRest
    /\ SinkAtRest
    /\ FetchAtRest
    /\ MainAtRest
    /\ ScoringAtRest
    /\ ClientAtRest
    /\ pc = "start"
    /\ processed_ids = {}
    /\ posts_to_process = <<>>
    /\ idx = 0
    /\ post_id = NoPost
    /\ temp_dir = FALSE
    /\ llm_response = Null
    /\ is_relevant = FALSE
    /\ username = Null
    /\ sentiment = Null
    /\ confidence = Null
    /\ exit = "none"
    /\ stop_reason = Null
    /\ loaded = {}
    /\ attempted = <<>>
    /\ completed = {}
    /\ stages = {}
    /\ failed_stage = Null
    /\ crashed = {}

\* process.py:325-341: a run of process_posts starts (the first, or a rerun after
\* the previous run completed, stopped or died)
StartRun ==
    /\ UNCHANGED <<hvars, svars, fvars, mvars, lvars, cvars>>
    /\ pc \in Ended
    /\ processed_ids' = load_progress(progress_file)
    /\ posts_to_process' = PostsToProcess(all_posts, load_progress(progress_file), limit)
    /\ idx' = 1
    /\ pc' = "loop"
    /\ post_id' = NoPost
    /\ temp_dir' = FALSE
    /\ ItemLocalsUnset
    /\ exit' = "none"
    /\ stop_reason' = Null
    /\ loaded' = load_progress(progress_file)
    /\ attempted' = <<>>
    /\ completed' = {}
    /\ stages' = {}
    /\ failed_stage' = Null
    /\ crashed' = IF pc = "dead" THEN crashed ELSE {}
    /\ UNCHANGED <<progress_file, feedback, limit>>

\* process.py:343-349: the loop takes the next item and creates its directory
Mkdtemp ==
    /\ UNCHANGED <<hvars, svars, fvars, mvars, lvars, cvars>>
    /\ pc = "loop"
    /\ idx <= Len(posts_to_process)
    /\ post_id' = posts_to_process[idx]
    /\ temp_dir' = TRUE
    /\ ItemLocalsUnset
    /\ exit' = "none"
    /\ attempted' = Append(attempted, posts_to_process[idx])
    /\ stages' = {}
    /\ pc' = "images"
    /\ UNCHANGED <<progress_file, feedback, limit, processed_ids, posts_to_process,
                   idx, stop_reason, loaded, completed, failed_stage, crashed>>

\* process.py:352-355: extract_images_from_post; a failed download is omitted from
\* image_paths and nothing is raised.  The number of images only selects which
\* inference method is called, and the result of either is any response.
ExtractImages ==
    /\ UNCHANGED <<hvars, svars, fvars, mvars, lvars, cvars>>
    /\ pc = "images"
    /\ stages' = stages \cup {"images"}
    /\ pc' = "classify"
    /\ UNCHANGED <<progress_file, feedback, limit, processed_ids, posts_to_process,
                   idx, post_id, temp_dir, llm_response, is_relevant, username,
                   sentiment, confidence, exit, stop_reason, loaded, attempted,
                   completed, failed_stage, crashed>>

\* a relevance step without the "not relevant" branch
ClassifyWithoutSkip ==
    /\ UNCHANGED <<hvars, svars, fvars, mvars, lvars, cvars>>
    /\ pc = "classify"
    /\ \E resp \in ClassifyResponses :
        LET r == extract_instagram_username(resp) IN
        /\ llm_response' = resp.kind
        /\ is_relevant' = r[1]
        /\ username' = r[2]
    /\ pc' = "comments"
    /\ stages' = stages \cup {"classify"}
    /\ UNCHANGED <<progress_file, feedback, limit, processed_ids, posts_to_process,
                   idx, post_id, temp_dir, sentiment, confidence, exit, stop_reason,
                   loaded, attempted, completed, failed_stage, crashed>>

\* process.py:357-366: the relevance call; "not relevant" marks the item and continues
Classify ==
    /\ UNCHANGED <<hvars, svars, fvars, mvars, lvars, cvars>>
    /\ pc = "classify"
    /\ \E resp \in ClassifyResponses :
        LET r == extract_instagram_username(resp) IN
        /\ llm_response' = resp.kind
        /\ is_relevant' = r[1]
        /\ username' = r[2]
        /\ IF ~r[1]
           THEN /\ processed_ids' = processed_ids \cup {post_id}
                /\ completed' = completed \cup {post_id}
                /\ exit' = "continue"
                /\ pc' = "finally"
           ELSE /\ pc' = "comments"
                /\ UNCHANGED <<processed_ids, completed, exit>>
    /\ stages' = stages \cup {"classify"}
    /\ UNCHANGED <<progress_file, feedback, limit, posts_to_process, idx, post_id,
                   temp_dir, sentiment, confidence, stop_reason, loaded, attempted,
                   failed_stage, crashed>>

\* a handler that saves and lets the loop go on with the next item
HandleErrorAndGoOn(stage) ==
    /\ progress_file' = save_progress(processed_ids)
    /\ failed_stage' = stage
    /\ exit' = "continue"
    /\ pc' = "finally"

\* a handler that re-raises without saving
HandleErrorNoSave(stage) ==
    /\ UNCHANGED progress_file
    /\ failed_stage' = stage
    /\ exit' = "error"
    /\ pc' = "finally"

\* process.py:400-404: except Exception: save_progress, raise
HandleError(stage) ==
    /\ progress_file' = save_progress(processed_ids)
    /\ failed_stage' = stage
    /\ exit' = "error"
    /\ pc' = "finally"

\* process.py:368-376 and 41-102: fetch_comments returns the list or raises
FetchComments ==
    /\ UNCHANGED <<hvars, svars, fvars, mvars, lvars, cvars>>
    /\ pc = "comments"
    /\ stages' = stages \cup {"comments"}
    /\ \/ /\ pc' = "scoring"
          /\ UNCHANGED <<progress_file, failed_stage, exit>>
       \/ HandleError("comments")
    /\ UNCHANGED <<feedback, limit, processed_ids, posts_to_process, idx, post_id,
                   temp_dir, llm_response, is_relevant, username, sentiment,
                   confidence, stop_reason, loaded, attempted, completed, crashed>>

\* a scoring step that lets an exception of the inference call leave the stage
AnalyzeSentimentRaising ==
    /\ UNCHANGED <<hvars, svars, fvars, mvars, lvars, cvars>>
    /\ pc = "scoring"
    /\ stages' = stages \cup {"scoring"}
    /\ \E resp \in ScoreResponses :
        LET r == analyze_sentiment(resp) IN
        /\ llm_response' = resp.kind
        /\ IF resp.kind = "raise"
           THEN /\ HandleError("scoring")
                /\ UNCHANGED <<sentiment, confidence>>
           ELSE /\ sentiment' = r[1]
                /\ confidence' = r[2]
                /\ pc' = "persisting"
                /\ UNCHANGED <<progress_file, failed_stage, exit>>
    /\ UNCHANGED <<feedback, limit, processed_ids, posts_to_process,
                   idx, post_id, temp_dir, is_relevant, username, stop_reason,
                   loaded, attempted, completed, crashed>>

\* process.py:378-381: the scoring call never fails the item
AnalyzeSentiment ==
    /\ UNCHANGED <<hvars, svars, fvars, mvars, lvars, cvars>>
    /\ pc = "scoring"
    /\ \E resp \in ScoreResponses :
        LET r == analyze_sentiment(resp) IN
        /\ llm_response' = resp.kind
        /\ sentiment' = r[1]
        /\ confidence' = r[2]
    /\ stages' = stages \cup {"scoring"}
    /\ pc' = "persisting"
    /\ UNCHANGED <<progress_file, feedback, limit, processed_ids, posts_to_process,
                   idx, post_id, temp_dir, is_relevant, username, exit, stop_reason,
                   loaded, attempted, completed, failed_stage, crashed>>

\* a persist step that goes on to mark the item without having written the row
InsertFeedbackNotWritten ==
    /\ UNCHANGED <<hvars, svars, fvars, mvars, lvars, cvars>>
    /\ pc = "persisting"
    /\ pc' = "mark"
    /\ UNCHANGED <<progress_file, feedback, limit, processed_ids, posts_to_process,
                   idx, post_id, temp_dir, llm_response, is_relevant, username,
                   sentiment, confidence, exit, stop_reason, loaded, attempted,
                   completed, stages, failed_stage, crashed>>

\* process.py:383-385 and 302-322: the Result Sink write commits or raises
InsertFeedback ==
    /\ UNCHANGED <<hvars, svars, fvars, mvars, lvars, cvars>>
    /\ pc = "persisting"
    /\ \/ /\ feedback' = Upsert(feedback,
                                FeedbackRow(post_id, username, sentiment, confidence))
          /\ stages' = stages \cup {"persist"} \cup
                 IF \E r \in feedback :
                        SamePair(r, FeedbackRow(post_id, username, sentiment, confidence))
                 THEN {"conflict"} ELSE {}
          /\ pc' = "mark"
          /\ UNCHANGED <<progress_file, failed_stage, exit>>
       \/ /\ HandleError("persist")
          /\ UNCHANGED <<feedback, stages>>
    /\ UNCHANGED <<limit, processed_ids, posts_to_process, idx, post_id, temp_dir,
                   llm_response, is_relevant, username, sentiment, confidence,
                   stop_reason, loaded, attempted, completed, crashed>>

\* process.py:387-393: mark as processed, save at every SAVE_EVERY-th index
MarkProcessed ==
    /\ UNCHANGED <<hvars, svars, fvars, mvars, lvars, cvars>>
    /\ pc = "mark"
    /\ processed_ids' = processed_ids \cup {post_id}
    /\ completed' = completed \cup {post_id}
    /\ progress_file' = IF idx % SAVE_EVERY = 0
                        THEN save_progress(processed_ids \cup {post_id})
                        ELSE progress_file
    /\ exit' = "normal"
    /\ pc' = "finally"
    /\ UNCHANGED <<feedback, limit, posts_to_process, idx, post_id, temp_dir,
                   llm_response, is_relevant, username, sentiment, confidence,
                   stop_reason, loaded, attempted, stages, failed_stage, crashed>>

\* process.py:406-411: the finally clause, then what the try block was leaving for.
\* The item's username, sentiment and confidence are not read again.
Cleanup ==
    /\ UNCHANGED <<hvars, svars, fvars, mvars, lvars, cvars>>
    /\ pc = "finally"
    /\ temp_dir' = FALSE
    /\ username' = Null
    /\ sentiment' = Null
    /\ confidence' = Null
    /\ IF exit \in {"normal", "continue"}
       THEN /\ idx' = idx + 1
            /\ pc' = "loop"
            /\ UNCHANGED stop_reason
       ELSE /\ pc' = "stopped"
            /\ stop_reason' = exit
            /\ UNCHANGED idx
    /\ UNCHANGED <<progress_file, feedback, limit, processed_ids, posts_to_process,
                   post_id, llm_response, is_relevant, exit, loaded, attempted,
                   completed, stages, failed_stage, crashed>>

\* process.py:413-416: the loop is exhausted: final save
FinalSave ==
    /\ UNCHANGED <<hvars, svars, fvars, mvars, lvars, cvars>>
    /\ pc = "loop"
    /\ idx > Len(posts_to_process)
    /\ progress_file' = save_progress(processed_ids)
    /\ pc' = "done"
    /\ stop_reason' = "complete"
    /\ UNCHANGED <<feedback, limit, processed_ids, posts_to_process, idx, post_id,
                   temp_dir, llm_response, is_relevant, username, sentiment,
                   confidence, exit, loaded, attempted, completed, stages,
                   failed_stage, crashed>>

\* process.py:395-398: KeyboardInterrupt raised inside the try block
Interrupt ==
    /\ UNCHANGED <<hvars, svars, fvars, mvars, lvars, cvars>>
    /\ pc \in InTry
    /\ progress_file' = save_progress(processed_ids)
    /\ exit' = "interrupt"
    /\ pc' = "finally"
    /\ UNCHANGED <<feedback, limit, processed_ids, posts_to_process, idx, post_id,
                   temp_dir, llm_response, is_relevant, username, sentiment,
                   confidence, stop_reason, loaded, attempted, completed, stages,
                   failed_stage, crashed>>

\* process.py:343-349, 406-414: KeyboardInterrupt raised outside the try block
\* (loop header, mkdtemp, the finally clause, the final save): no handler runs
InterruptOutsideTry ==
    /\ UNCHANGED <<hvars, svars, fvars, mvars, lvars, cvars>>
    /\ pc \in {"loop", "finally"}
    /\ pc' = "stopped"
    /\ stop_reason' = "interrupt"
    /\ UNCHANGED <<progress_file, feedback, limit, processed_ids, posts_to_process,
                   idx, post_id, temp_dir, llm_response, is_relevant, username,
                   sentiment, confidence, exit, loaded, attempted, completed, stages,
                   failed_stage, crashed>>

\* the process dies (kill, power loss): no handler and no finally clause runs;
\* its memory is gone; the progress file, the feedback table and the item's
\* temporary directory stay
Crash ==
    /\ UNCHANGED <<hvars, svars, fvars, mvars, lvars, cvars>>
    /\ pc \in Running
    /\ pc' = "dead"
    /\ stop_reason' = "crash"
    /\ crashed' = {id \in Range(attempted) : id \notin progress_file}
    /\ processed_ids' = {}
    /\ posts_to_process' = <<>>
    /\ idx' = 0
    /\ post_id' = NoPost
    /\ ItemLocalsUnset
    /\ exit' = "none"
    /\ loaded' = {}
    /\ attempted' = <<>>
    /\ completed' = {}
    /\ stages' = {}
    /\ failed_stage' = Null
    /\ UNCHANGED <<progress_file, feedback, limit, temp_dir>>

NextProcess ==
    \/ StartRun
    \/ Mkdtemp
    \/ ExtractImages
    \/ Classify
    \/ FetchComments
    \/ AnalyzeSentiment
    \/ InsertFeedback
    \/ MarkProcessed
    \/ Cleanup
    \/ FinalSave
    \/ Interrupt
    \/ InterruptOutsideTry
    \/ Crash

SpecProcess == InitProcess /\ [][NextProcess]_vars

\* the steps process_posts takes by itself; an interrupt, a kill of the process
\* and a new run come from outside
ProgramStep ==
    \/ Mkdtemp
    \/ ExtractImages
    \/ Classify
    \/ FetchComments
    \/ AnalyzeSentiment
    \/ InsertFeedback
    \/ MarkProcessed
    \/ Cleanup
    \/ FinalSave

\* process.py:343-416 runs in one thread with blocking calls that return or
\* raise (the inference calls and curlfire have timeouts): a run that is not
\* stopped from outside takes its next step
\* process.py:325-341: the run of process_posts of a fresh process
FirstRun == pc = "start" /\ StartRun

\* one run, from its start to its end, with what may stop it from outside
NextRun ==
    \/ FirstRun
    \/ ProgramStep
    \/ Interrupt
    \/ InterruptOutsideTry
    \/ Crash

SpecProcessLive == InitProcess /\ [][NextRun]_vars /\ WF_vars(ProgramStep)

(***************************************************************************)
(* The engine variant of agent.py.  agent.process_posts has the statements *)
(* of process.process_posts without the image stage: the first statement   *)
(* of its try block is the relevance call of line 43, whose argument        *)
(* image_paths is bound nowhere in agent.py.                                *)
(***************************************************************************)
\* the progress files a run of the variant may find, the complete one included
AgentInitialProgress == InitialProgress \cup {PostIds}

InitAgent ==
    /\ progress_file \in AgentInitialProgress
    /\ feedback = {}
    /\ limit \in Limits
    /\ fetch_state = <<>>
    /\ item_store = {}
    /\ HarvestAtRest
    /\ SinkAtRest
    /\ FetchAtRest
    /\ MainAtRest
    /\ ScoringAtRest
    /\ ClientAtRest
    /\ pc = "start"
    /\ processed_ids = {}
    /\ posts_to_process = <<>>
    /\ idx = 0
    /\ post_id = NoPost
    /\ temp_dir = FALSE
    /\ llm_response = Null
    /\ is_relevant = FALSE
    /\ username = Null
    /\ sentiment = Null
    /\ confidence = Null
    /\ exit = "none"
    /\ stop_reason = Null
    /\ loaded = {}
    /\ attempted = <<>>
    /\ completed = {}
    /\ stages = {}
    /\ failed_stage = Null
    /\ crashed = {}

\* agent.py:40-43 and 84-88: evaluating the arguments of the relevance call raises
\* NameError before extract_instagram_username is entered; the handler saves
AgentClassify ==
    /\ UNCHANGED <<hvars, svars, fvars, mvars, lvars, cvars>>
    /\ pc = "images"
    /\ HandleError("arguments")
    /\ UNCHANGED <<feedback, limit, processed_ids, posts_to_process, idx, post_id,
                   temp_dir, llm_response, is_relevant, username, sentiment,
                   confidence, stop_reason, loaded, attempted, completed, stages,
                   crashed>>

NextAgent ==
    \/ StartRun
    \/ Mkdtemp
    \/ AgentClassify
    \/ Cleanup
    \/ FinalSave
    \/ Interrupt
    \/ InterruptOutsideTry
    \/ Crash

SpecAgent == InitAgent /\ [][NextAgent]_vars

(***************************************************************************)
(* The harvester: fetch.py fetch_and_save_posts and fetch_subreddit_posts.  *)
(***************************************************************************)
\* the cursor files a first cycle may find: InstagramShops has a watermark,
\* InstaShoppingFails has one or has no record
InitialFetchStates ==
    {[s \in {"InstagramShops"} |-> Cursor(n, CreatedUtc(n), 0)] : n \in ItemNames}
    \cup {[s \in Subreddits |-> Cursor(n, CreatedUtc(n), 1)] : n \in {1}}

\* the posts table holds the posts up to the stored watermarks
StoredUpTo(state) ==
    {[id |-> m, payload |-> "v1"] : m \in {k \in ItemNames :
                              \E s \in DOMAIN state : k <= state[s].last_post_id}}

InitHarvest ==
    /\ progress_file = {}
    /\ feedback = {}
    /\ limit = NoLimit
    /\ pc = "start"
    /\ processed_ids = {}
    /\ posts_to_process = <<>>
    /\ idx = 0
    /\ post_id = NoPost
    /\ temp_dir = FALSE
    /\ llm_response = Null
    /\ is_relevant = FALSE
    /\ username = Null
    /\ sentiment = Null
    /\ confidence = Null
    /\ exit = "none"
    /\ stop_reason = Null
    /\ loaded = {}
    /\ attempted = <<>>
    /\ completed = {}
    /\ stages = {}
    /\ failed_stage = Null
    /\ crashed = {}
    /\ fetch_state \in InitialFetchStates
    /\ item_store = StoredUpTo(fetch_state)
    /\ HarvestAtRest
    /\ SinkAtRest
    /\ FetchAtRest
    /\ MainAtRest
    /\ ScoringAtRest
    /\ ClientAtRest

\* a lookup that falls back to the oldest post when the source has no record
StoredLastPostIdOrOldest(state, sub) ==
    IF sub \in DOMAIN state THEN state[sub].last_post_id ELSE 1

\* fetch.py:198-200: state.get(subreddit, {}).get("last_post_id")
StoredLastPostId(state, sub) ==
    IF sub \in DOMAIN state THEN state[sub].last_post_id ELSE NoName

\* a lookup that starts every count from zero
StoredTotalReset(state, sub) == 0

\* fetch.py:224: subreddit_state.get("total_posts_fetched", 0)
StoredTotal(state, sub) ==
    IF sub \in DOMAIN state THEN state[sub].total_posts_fetched ELSE 0

\* fetch.py:170-174: a child is accepted when it is a post with a name
Accepted(child) == child.kind = "t3" /\ child.name # NoName

\* a loop that takes every accepted child as the newest
RECURSIVE ScanChildrenLastWins(_, _, _)
ScanChildrenLastWins(children, i, acc) ==
    IF i > Len(children) THEN acc
    ELSE LET child == children[i] IN
         IF Accepted(child)
         THEN ScanChildrenLastWins(children, i + 1,
                  <<Append(acc[1], child.name), child.name, CreatedUtc(child.name)>>)
         ELSE ScanChildrenLastWins(children, i + 1, acc)

\* a loop that takes the timestamp of a newer child but keeps the identifier
RECURSIVE ScanChildrenStaleId(_, _, _)
ScanChildrenStaleId(children, i, acc) ==
    IF i > Len(children) THEN acc
    ELSE LET child == children[i] IN
         IF Accepted(child)
         THEN ScanChildrenStaleId(children, i + 1,
                  <<Append(acc[1], child.name), acc[2],
                    IF CreatedUtc(child.name) > acc[3]
                    THEN CreatedUtc(child.name) ELSE acc[3]>>)
         ELSE ScanChildrenStaleId(children, i + 1, acc)

\* fetch.py:169-180: the loop over the children of one page, from the child at
\* position i on; acc is <<all_new_posts, newest_post_id, newest_timestamp>>
RECURSIVE ScanChildren(_, _, _)
ScanChildren(children, i, acc) ==
    IF i > Len(children) THEN acc
    ELSE LET child == children[i] IN
         IF Accepted(child)
         THEN ScanChildren(children, i + 1,
                  IF CreatedUtc(child.name) > acc[3]
                  THEN <<Append(acc[1], child.name), child.name, CreatedUtc(child.name)>>
                  ELSE <<Append(acc[1], child.name), acc[2], acc[3]>>)
         ELSE ScanChildren(children, i + 1, acc)

\* a loop that goes on to another page although the page carried no token
ContinuesWithoutToken(resp) == TRUE

\* fetch.py:183-187: the loop goes on only with the continuation token of the page
Continues(resp) == resp.after = "token"

\* a request that always carries the stored watermark
RequestParamAlwaysBefore == <<"before", last_post_id>>

\* fetch.py:148-153: the parameter of the next page request
RequestParam ==
    IF after_token # NoToken THEN <<"after", after_token>>
    ELSE <<"before", last_post_id>>

\* fetch.py:196-204 and 142-145: a cycle starts; a source without watermark is skipped
StartCycle ==
    /\ UNCHANGED <<pvars, svars, fvars, mvars, lvars, cvars>>
    /\ hpc = "idle"
    /\ \E sub \in Subreddits :
        /\ subreddit' = sub
        /\ last_post_id' = StoredLastPostId(fetch_state, sub)
        /\ newest_post_id' = StoredLastPostId(fetch_state, sub)
        /\ IF StoredLastPostId(fetch_state, sub) = NoName
           THEN /\ hpc' = "done"
                /\ cycle_result' = "skipped"
                /\ new_count' = 0
           ELSE /\ hpc' = "paging"
                /\ cycle_result' = "none"
                /\ new_count' = NoCount
    /\ all_new_posts' = <<>>
    /\ after_token' = NoToken
    /\ newest_timestamp' = 0
    /\ requests' = <<>>
    /\ overlap' = FALSE
    /\ page_failed' = FALSE
    /\ missed' = {}
    /\ last_page' = NoPage
    /\ UNCHANGED <<fetch_state, item_store, insert_calls>>

\* a page fetch that, when the request raises, writes the cursor record itself
FetchPageSavingCursor ==
    /\ UNCHANGED <<pvars, svars, fvars, mvars, lvars, cvars>>
    /\ hpc = "paging"
    /\ requests' = Append(requests, RequestParam)
    /\ page_failed' = TRUE
    /\ missed' = {}
    /\ last_page' = Page(FALSE, FALSE, TRUE)
    /\ hpc' = "returned"
    /\ fetch_state' =
           (subreddit :> Cursor(newest_post_id, newest_timestamp,
                                StoredTotal(fetch_state, subreddit)))
           @@ fetch_state
    /\ UNCHANGED <<item_store, subreddit, last_post_id, all_new_posts, after_token,
                   newest_post_id, newest_timestamp, overlap, cycle_result,
                   new_count, insert_calls>>

\* fetch.py:147-191: one iteration of the while loop.  When the request raises,
\* missed is a post newer than the watermark that the page would have carried.
FetchPage ==
    /\ UNCHANGED <<pvars, svars, fvars, mvars, lvars, cvars>>
    /\ hpc = "paging"
    /\ requests' = Append(requests, RequestParam)
    /\ \E resp \in PageResponses :
        \/ /\ resp.kind = "error"
           /\ page_failed' = TRUE
           /\ \E m \in {{}} \cup {{n} : n \in {k \in ItemNames :
                                    CreatedUtc(k) > CreatedUtc(last_post_id)}} :
                  missed' = m
           /\ last_page' = Page(FALSE, FALSE, TRUE)
           /\ hpc' = "returned"
           /\ UNCHANGED <<all_new_posts, after_token, newest_post_id,
                          newest_timestamp, overlap>>
        \/ /\ \/ resp.kind = "nodata"
              \/ resp.kind = "listing" /\ resp.children = <<>>
           /\ last_page' = Page(FALSE, resp.kind = "listing" /\ resp.after = "token",
                                FALSE)
           /\ hpc' = "returned"
           /\ UNCHANGED <<all_new_posts, after_token, newest_post_id,
                          newest_timestamp, overlap, page_failed, missed>>
        \/ /\ resp.kind = "listing"
           /\ resp.children # <<>>
           /\ Continues(resp) => Len(requests) + 1 < MaxPages
           /\ LET acc == ScanChildren(resp.children, 1,
                             <<all_new_posts, newest_post_id, newest_timestamp>>)
              IN /\ all_new_posts' = acc[1]
                 /\ newest_post_id' = acc[2]
                 /\ newest_timestamp' = acc[3]
           /\ overlap' = (overlap \/ \E i \in 1..Len(resp.children) :
                             /\ Accepted(resp.children[i])
                             /\ resp.children[i].name \in Range(all_new_posts))
           /\ after_token' = IF resp.after = "token"
                             THEN PageToken(Len(requests) + 1) ELSE NoToken
           /\ last_page' = Page(TRUE, resp.after = "token", FALSE)
           /\ hpc' = IF Continues(resp) THEN "paging" ELSE "returned"
           /\ UNCHANGED <<page_failed, missed>>
    /\ UNCHANGED <<fetch_state, item_store, subreddit, last_post_id, cycle_result,
                   new_count, insert_calls>>

\* a return that stamps the cursor record of the source although nothing came
ReturnEmptyTouchingCursor ==
    /\ UNCHANGED <<pvars, svars, fvars, mvars, lvars, cvars>>
    /\ hpc = "returned"
    /\ all_new_posts = <<>>
    /\ hpc' = "done"
    /\ cycle_result' = "empty"
    /\ new_count' = 0
    /\ fetch_state' =
           (subreddit :> Cursor(newest_post_id, newest_timestamp,
                                StoredTotal(fetch_state, subreddit)))
           @@ fetch_state
    /\ UNCHANGED <<item_store, subreddit, last_post_id, all_new_posts,
                   after_token, newest_post_id, newest_timestamp, requests, overlap,
                   page_failed, missed, last_page, insert_calls>>

\* fetch.py:210-212: nothing was harvested
ReturnEmpty ==
    /\ UNCHANGED <<pvars, svars, fvars, mvars, lvars, cvars>>
    /\ hpc = "returned"
    /\ all_new_posts = <<>>
    /\ hpc' = "done"
    /\ cycle_result' = "empty"
    /\ new_count' = 0
    /\ UNCHANGED <<fetch_state, item_store, subreddit, last_post_id, all_new_posts,
                   after_token, newest_post_id, newest_timestamp, requests, overlap,
                   page_failed, missed, last_page, insert_calls>>

\* INSERT OR IGNORE: the row of the first insert stays
insert_post_or_ignore(table, post_data) ==
    IF \E r \in table : r.id = post_data.id THEN table ELSE table \cup {post_data}

\* posts_db.py:52-96: INSERT OR REPLACE INTO posts, whose primary key is id: the
\* row with the same id is deleted and the new row, every column given, is inserted
insert_post(table, post_data) == {r \in table : r.id # post_data.id} \cup {post_data}

\* a loop that leaves the last harvested post out
RECURSIVE InsertAllButLast(_, _, _)
InsertAllButLast(table, posts, i) ==
    IF i >= Len(posts) THEN table
    ELSE InsertAllButLast(insert_post(table, PostData(posts[i])), posts, i + 1)

\* fetch.py:216-218: the loop over new_posts, from position i on
RECURSIVE InsertAll(_, _, _)
InsertAll(table, posts, i) ==
    IF i > Len(posts) THEN table
    ELSE InsertAll(insert_post(table, PostData(posts[i])), posts, i + 1)

\* the post_data of the calls that loop makes for the first k posts
CallsOf(posts, k) == [i \in 1..k |-> PostData(posts[i])]

\* fetch.py:216-218: every harvested post is upserted, or the store raises at one
\* of them and the exception leaves fetch_and_save_posts
InsertPosts ==
    /\ UNCHANGED <<pvars, svars, fvars, mvars, lvars, cvars>>
    /\ hpc = "returned"
    /\ all_new_posts # <<>>
    /\ \/ /\ item_store' = InsertAll(item_store, all_new_posts, 1)
          /\ insert_calls' = insert_calls \o CallsOf(all_new_posts, Len(all_new_posts))
          /\ hpc' = "save_state"
          /\ UNCHANGED cycle_result
       \/ /\ \E k \in 0..(Len(all_new_posts) - 1) :
                /\ item_store' = InsertAll(item_store, SubSeq(all_new_posts, 1, k), 1)
                /\ insert_calls' = insert_calls \o CallsOf(all_new_posts, k)
          /\ hpc' = "done"
          /\ cycle_result' = "storage_error"
    /\ UNCHANGED <<fetch_state, subreddit, last_post_id, all_new_posts, after_token,
                   newest_post_id, newest_timestamp, requests, overlap, page_failed,
                   missed, new_count, last_page>>

\* fetch.py:220-229: the cursor record is written
SaveFetchState ==
    /\ UNCHANGED <<pvars, svars, fvars, mvars, lvars, cvars>>
    /\ hpc = "save_state"
    /\ fetch_state' =
           (subreddit :> Cursor(newest_post_id, newest_timestamp,
                                StoredTotal(fetch_state, subreddit) + Len(all_new_posts)))
           @@ fetch_state
    /\ hpc' = "done"
    /\ cycle_result' = "saved"
    /\ new_count' = Len(all_new_posts)
    /\ UNCHANGED <<item_store, subreddit, last_post_id, all_new_posts, after_token,
                   newest_post_id, newest_timestamp, requests, overlap, page_failed,
                   missed, last_page, insert_calls>>

NextHarvest ==
    \/ StartCycle
    \/ FetchPage
    \/ ReturnEmpty
    \/ InsertPosts
    \/ SaveFetchState

SpecHarvest == InitHarvest /\ [][NextHarvest]_vars

(***************************************************************************)
(* The Item Store on its own: any sequence of insert_post calls, each with *)
(* any post and any payload, on an empty posts table.                      *)
(***************************************************************************)
InitItemStore ==
    /\ progress_file = {}
    /\ feedback = {}
    /\ limit = NoLimit
    /\ pc = "start"
    /\ processed_ids = {}
    /\ posts_to_process = <<>>
    /\ idx = 0
    /\ post_id = NoPost
    /\ temp_dir = FALSE
    /\ llm_response = Null
    /\ is_relevant = FALSE
    /\ username = Null
    /\ sentiment = Null
    /\ confidence = Null
    /\ exit = "none"
    /\ stop_reason = Null
    /\ loaded = {}
    /\ attempted = <<>>
    /\ completed = {}
    /\ stages = {}
    /\ failed_stage = Null
    /\ crashed = {}
    /\ fetch_state = <<>>
    /\ item_store = {}
    /\ HarvestAtRest
    /\ SinkAtRest
    /\ FetchAtRest
    /\ MainAtRest
    /\ ScoringAtRest
    /\ ClientAtRest

\* posts_db.py:52-96: one call of insert_post
InsertPostCall ==
    /\ UNCHANGED <<pvars, svars, fvars, mvars, lvars, cvars>>
    /\ Len(insert_calls) < MaxCalls
    /\ \E n \in ItemNames, p \in Payloads :
        LET post_data == [id |-> n, payload |-> p] IN
        /\ item_store' = insert_post(item_store, post_data)
        /\ insert_calls' = Append(insert_calls, post_data)
    /\ UNCHANGED <<fetch_state, hpc, subreddit, last_post_id, all_new_posts,
                   after_token, newest_post_id, newest_timestamp, requests, overlap,
                   page_failed, missed, cycle_result, new_count, last_page>>

NextItemStore == InsertPostCall

SpecItemStore == InitItemStore /\ [][NextItemStore]_vars

(***************************************************************************)
(* The Result Sink on its own: any sequence of insert_feedback calls on an *)
(* empty feedback table.  CURRENT_TIMESTAMP has a resolution of one second, *)
(* so the clock may or may not have advanced between two writes.           *)
(***************************************************************************)
\* the updated_at a row gets when it is inserted.  The INSERT of process.py:307
\* names no updated_at column and the table's definition is not in the
\* repository; per the Feedback Record of the specification the column holds the
\* time of the write.
DefaultUpdatedAt(ts) == ts

\* process.py:305-315: the INSERT ... ON CONFLICT(giver, receiver) DO UPDATE SET
\* rating, comment, updated_at = CURRENT_TIMESTAMP, executed at time ts
SinkWrite(table, row, ts) ==
    IF \E r \in table : SamePair(r, row)
    THEN Upsert(table, row @@ [updated_at |-> ts])
    ELSE Upsert(table, row @@ [updated_at |-> DefaultUpdatedAt(ts)])

InitFeedback ==
    /\ progress_file = {}
    /\ feedback = {}
    /\ limit = NoLimit
    /\ pc = "start"
    /\ processed_ids = {}
    /\ posts_to_process = <<>>
    /\ idx = 0
    /\ post_id = NoPost
    /\ temp_dir = FALSE
    /\ llm_response = Null
    /\ is_relevant = FALSE
    /\ username = Null
    /\ sentiment = Null
    /\ confidence = Null
    /\ exit = "none"
    /\ stop_reason = Null
    /\ loaded = {}
    /\ attempted = <<>>
    /\ completed = {}
    /\ stages = {}
    /\ failed_stage = Null
    /\ crashed = {}
    /\ fetch_state = <<>>
    /\ item_store = {}
    /\ HarvestAtRest
    /\ SinkAtRest
    /\ FetchAtRest
    /\ MainAtRest
    /\ ScoringAtRest
    /\ ClientAtRest

\* process.py:268-322: one call of insert_feedback, in the second of the previous
\* write or in the next one; sentiment and confidence hold the call's arguments
InsertFeedbackCall ==
    /\ UNCHANGED <<hvars, fvars, mvars, lvars, cvars>>
    /\ Len(write_calls) < MaxWrites
    /\ \E id \in PostIds, user \in {"shop", Null}, sent \in Sentiments,
          conf \in {"low", "high"}, ts \in {now, now + 1} :
        /\ now' = ts
        /\ sentiment' = sent
        /\ confidence' = conf
        /\ feedback' = SinkWrite(feedback, FeedbackRow(id, user, sent, conf), ts)
        /\ write_calls' = Append(write_calls,
                                 FeedbackRow(id, user, sent, conf) @@ [updated_at |-> ts])
    /\ UNCHANGED <<progress_file, limit, pc, processed_ids, posts_to_process, idx,
                   post_id, temp_dir, llm_response, is_relevant, username, exit,
                   stop_reason, loaded, attempted, completed, stages, failed_stage,
                   crashed>>

NextFeedback == InsertFeedbackCall

SpecFeedback == InitFeedback /\ [][NextFeedback]_vars

(***************************************************************************)
(* fetch_comments (process.py:41-102) with its flattener extract_comments *)
(* (process.py:63-92); fetch_post_comments of fetch.py:86-136 and          *)
(* fetch_comments of utils.py:23-84 are copies.                            *)
(*                                                                         *)
(* The response's comment tree has the nodes 1..NNodes below the top       *)
(* Listing, node 0.  parent[n] < n is the node whose replies Listing holds *)
(* n, and the children of a Listing are in increasing order of their       *)
(* number.  A node is a comment ("t1") or another kind of thing, such as   *)
(* the "more" stub.  The score of a node is its number, so that an entry   *)
(* of the flattened list tells which node it came from.                    *)
(***************************************************************************)
Nodes == 1..NNodes

Bodies == {"fine", "[deleted]", "[removed]"}

Authors == {"bob", "[deleted]"}

NodeData ==
    {[kind |-> "t1", body |-> b, author |-> a] : b \in Bodies, a \in Authors}
    \cup {[kind |-> "more", body |-> "", author |-> ""]}

\* what the replies field of a comment without replies holds: the key is
\* absent (get gives None), the empty string, or false
LeafReplies == {"absent", "", "false"}

\* leaf is the value the comments without replies of the tree carry there
Trees ==
    {[parent |-> p, data |-> d, leaf |-> l] :
        p \in {f \in [Nodes -> 0..(NNodes - 1)] : \A n \in Nodes : f[n] < n},
        d \in [Nodes -> NodeData],
        l \in LeafReplies}

\* a filter that looks at the body only
VisibleBodyOnly(body, author) == body \notin {"[deleted]", "[removed]"}

\* process.py:72
Visible(body, author) ==
    body \notin {"[deleted]", "[removed]"} /\ author # "[deleted]"

\* the children list of the replies Listing of node n (process.py:87), in the
\* order of the listing
ChildrenOf(t, n) ==
    SelectSeq([i \in 1..NNodes |-> i], LAMBDA c : t.parent[c] = n)

\* replies that are followed only below a comment that was kept
RepliesOfKept(t, n) ==
    IF Visible(t.data[n].body, t.data[n].author) THEN ChildrenOf(t, n) ELSE <<>>

\* process.py:82  comment_data.get("replies"): a Listing when the comment has
\* replies
RepliesField(t, n) == IF ChildrenOf(t, n) # <<>> THEN "Listing" ELSE t.leaf

\* process.py:83  isinstance(replies, dict)
IsDict(v) == v = "Listing"

\* process.py:82-84: the replies of comment n that are processed
Replies(t, n) == IF IsDict(RepliesField(t, n)) THEN ChildrenOf(t, n) ELSE <<>>

\* the replies of a comment put before the comment itself
RepliesThenAppend(own, below) == below \o own

\* process.py:72-84: the comment is appended, then its replies are processed
AppendThenReplies(own, below) == own \o below

RECURSIVE extract_comments(_, _), ExtractChildren(_, _, _)
RECURSIVE ExtractChildrenUntilLeaf(_, _, _)

\* process.py:63-89: extract_comments(item) for the item that is node n; the
\* result is what the call appends to the list
extract_comments(t, n) ==
    IF n = 0
    THEN ExtractChildren(t, ChildrenOf(t, 0), 1)
    ELSE IF t.data[n].kind = "t1"
    THEN AppendThenReplies(
             IF Visible(t.data[n].body, t.data[n].author)
             THEN <<[author |-> t.data[n].author, body |-> t.data[n].body,
                     score |-> n]>>
             ELSE <<>>,
             ExtractChildren(t, Replies(t, n), 1))
    ELSE <<>>

\* a loop over the children that ends at the first comment without replies
ExtractChildrenUntilLeaf(t, children, i) ==
    IF i > Len(children)
    THEN <<>>
    ELSE IF t.data[children[i]].kind = "t1" /\ ~IsDict(RepliesField(t, children[i]))
    THEN extract_comments(t, children[i])
    ELSE extract_comments(t, children[i]) \o ExtractChildrenUntilLeaf(t, children, i + 1)

\* process.py:88-89  for child in children: extract_comments(child)
ExtractChildren(t, children, i) ==
    IF i > Len(children)
    THEN <<>>
    ELSE extract_comments(t, children[i]) \o ExtractChildren(t, children, i + 1)

\* the engine is not running
EngineAtRest ==
    /\ progress_file = {}
    /\ feedback = {}
    /\ limit = NoLimit
    /\ pc = "start"
    /\ processed_ids = {}
    /\ posts_to_process = <<>>
    /\ idx = 0
    /\ post_id = NoPost
    /\ temp_dir = FALSE
    /\ llm_response = Null
    /\ is_relevant = FALSE
    /\ username = Null
    /\ sentiment = Null
    /\ confidence = Null
    /\ exit = "none"
    /\ stop_reason = Null
    /\ loaded = {}
    /\ attempted = <<>>
    /\ completed = {}
    /\ stages = {}
    /\ failed_stage = Null
    /\ crashed = {}

\* how one run of curlfire for a URL ends: a response that parses as JSON, a
\* non-zero exit (CalledProcessError), no end within 30 seconds
\* (TimeoutExpired), or output json.loads rejects (JSONDecodeError)
Outcomes == {"ok", "exit", "timeout", "badjson"}

TransportFailures == {"exit", "timeout"}

\* the exception a failed run raises
ExceptionOf(outcome) ==
    CASE outcome = "exit" -> "CalledProcessError"
      [] outcome = "timeout" -> "TimeoutExpired"
      [] outcome = "badjson" -> "JSONDecodeError"

\* what the first n runs of curlfire end with
Transports(n) == [1..n -> Outcomes]

\* fetch_comments is called; the network will treat its first two requests in
\* some way
InitFetchComments ==
    /\ EngineAtRest
    /\ fetch_state = <<>>
    /\ item_store = {}
    /\ HarvestAtRest
    /\ SinkAtRest
    /\ MainAtRest
    /\ ScoringAtRest
    /\ ClientAtRest
    /\ transport \in Transports(2)
    /\ attempts = 0
    /\ raised = Null
    /\ tree = NoTree
    /\ comments = <<>>
    /\ fpc = "call"
    /\ retry_count = 0
    /\ rpc = "idle"

\* process.py:45-58, 94-102: the one subprocess.run of fetch_comments and
\* json.loads; every exception is printed and raised again; a document with
\* fewer than two elements gives the empty list
RunCurlfire ==
    /\ fpc = "call"
    /\ attempts' = attempts + 1
    /\ \/ /\ transport[attempts + 1] = "ok"
          /\ \E t \in Trees : tree' = t
          /\ fpc' = "response"
          /\ UNCHANGED <<raised, comments>>
       \/ /\ transport[attempts + 1] = "ok"
          /\ fpc' = "returned"
          /\ comments' = <<>>
          /\ UNCHANGED <<raised, tree>>
       \/ /\ transport[attempts + 1] # "ok"
          /\ raised' = ExceptionOf(transport[attempts + 1])
          /\ fpc' = "raised"
          /\ UNCHANGED <<tree, comments>>
    /\ UNCHANGED <<transport, retry_count, rpc, pvars, hvars, svars, mvars, lvars, cvars>>

\* process.py:60-92: comments = [], extract_comments(comments_data), return
ExtractComments ==
    /\ fpc = "response"
    /\ comments' = extract_comments(tree, 0)
    /\ fpc' = "returned"
    /\ UNCHANGED <<transport, attempts, raised, tree, retry_count, rpc,
                   pvars, hvars, svars, mvars, lvars, cvars>>

NextFetchComments == RunCurlfire \/ ExtractComments

SpecFetchComments == InitFetchComments /\ [][NextFetchComments]_vars

(***************************************************************************)
(* make_reddit_request (fetch.py:35-61): one call for one URL.  The        *)
(* recursive call of a retry is made inside the except clause, so what the *)
(* inner call raises passes through the outer calls unhandled.             *)
(***************************************************************************)
\* the call is made; the network will treat the requests for the URL in some way
InitRequest ==
    /\ EngineAtRest
    /\ fetch_state = <<>>
    /\ item_store = {}
    /\ HarvestAtRest
    /\ SinkAtRest
    /\ MainAtRest
    /\ ScoringAtRest
    /\ ClientAtRest
    /\ transport \in Transports(MAX_RETRIES + 2)
    /\ attempts = 0
    /\ raised = Null
    /\ tree = NoTree
    /\ comments = <<>>
    /\ fpc = "idle"
    /\ retry_count = 0
    /\ rpc = "try"

\* a handler that retries a decode failure as well
HasRetryClauseAlsoDecode(outcome) == outcome # "ok"

\* fetch.py:45, 52: the failures whose except clause has a retry branch
HasRetryClause(outcome) == outcome \in TransportFailures

\* a retry test that allows one retry more
MayRetryOnceMore(count) == count <= MAX_RETRIES

\* fetch.py:47, 54  if retry_count < MAX_RETRIES
MayRetry(count) == count < MAX_RETRIES

\* fetch.py:36-44, 59-61: subprocess.run and json.loads; the response is
\* returned, a decode failure is raised, a transport failure enters its except
\* clause
Attempt ==
    /\ rpc = "try"
    /\ attempts' = attempts + 1
    /\ \/ /\ transport[attempts + 1] = "ok"
          /\ rpc' = "returned"
          /\ UNCHANGED raised
       \/ /\ transport[attempts + 1] # "ok"
          /\ raised' = ExceptionOf(transport[attempts + 1])
          /\ rpc' = IF HasRetryClause(transport[attempts + 1])
                    THEN "except" ELSE "raised"
    /\ UNCHANGED <<transport, tree, comments, fpc, retry_count, pvars, hvars, svars, mvars, lvars, cvars>>

\* fetch.py:47-50, 54-57: time.sleep(RETRY_DELAY) and the recursive call
Retry ==
    /\ rpc = "except"
    /\ MayRetry(retry_count)
    /\ retry_count' = retry_count + 1
    /\ raised' = Null
    /\ rpc' = "try"
    /\ UNCHANGED <<transport, attempts, tree, comments, fpc, pvars, hvars, svars, mvars, lvars, cvars>>

\* fetch.py:51, 58: raise
RaiseLast ==
    /\ rpc = "except"
    /\ ~MayRetry(retry_count)
    /\ rpc' = "raised"
    /\ UNCHANGED <<transport, attempts, raised, tree, comments, fpc, retry_count,
                   pvars, hvars, svars, mvars, lvars, cvars>>

NextRequest == Attempt \/ Retry \/ RaiseLast

SpecRequest == InitRequest /\ [][NextRequest]_vars

(***************************************************************************)
(* main of the harvester (fetch.py:232-269): the loop over the sources.    *)
(* What the harvest cycle of a source does is the subject of SpecHarvest;  *)
(* here a cycle is one step that returns a count or raises.                *)
(***************************************************************************)
\* fetch.py:241: the sources in the order of the loop
Sources == <<"InstagramShops", "InstaShoppingFails">>

\* how fetch_and_save_posts(subreddit) ends (fetch.py:196-229): it returns the
\* number n of new posts, insert_post raises after n posts were stored
\* (fetch.py:218), or save_fetch_state raises (fetch.py:228)
CycleOutcomes ==
    {[kind |-> "count", n |-> n] : n \in 0..NItems}
    \cup {[kind |-> "insert_error", n |-> n] : n \in 0..(NItems - 1)}
    \cup {[kind |-> "save_error", n |-> NItems]}

StorageErrors == {"insert_error", "save_error"}

\* main is called with some fetch state on disk
InitMain ==
    /\ EngineAtRest
    /\ fetch_state = <<>>
    /\ item_store = {}
    /\ HarvestAtRest
    /\ SinkAtRest
    /\ FetchAtRest
    /\ plan \in [Subreddits -> CycleOutcomes]
    /\ watermarked \in SUBSET Subreddits
    /\ source_index = 1
    /\ mpc = "loop"
    /\ harvested = <<>>
    /\ caught = <<>>
    /\ total_new_posts = 0
    /\ ScoringAtRest
    /\ ClientAtRest

\* fetch.py:241-261: one iteration of the loop: a source without last_post_id
\* is skipped; otherwise fetch_and_save_posts is called, its count is added,
\* and an exception it raises is printed and the loop continues
MainCycle ==
    /\ mpc = "loop"
    /\ source_index <= Len(Sources)
    /\ LET sub == Sources[source_index]
       IN IF sub \notin watermarked
          THEN UNCHANGED <<harvested, caught, total_new_posts>>
          ELSE /\ harvested' = Append(harvested, sub)
               /\ IF plan[sub].kind \in StorageErrors
                  THEN /\ caught' = Append(caught, sub)
                       /\ UNCHANGED total_new_posts
                  ELSE /\ total_new_posts' = total_new_posts + plan[sub].n
                       /\ UNCHANGED caught
    /\ source_index' = source_index + 1
    /\ UNCHANGED <<plan, watermarked, mpc, pvars, hvars, svars, fvars, lvars, cvars>>

\* fetch.py:263-269: count_posts and the summary
MainSummary ==
    /\ mpc = "loop"
    /\ source_index > Len(Sources)
    /\ mpc' = "done"
    /\ UNCHANGED <<plan, watermarked, source_index, harvested, caught,
                   total_new_posts, pvars, hvars, svars, fvars, lvars, cvars>>

NextMain == MainCycle \/ MainSummary

SpecMain == InitMain /\ [][NextMain]_vars

(***************************************************************************)
(* analyze_sentiment of llm.py:235-288 (process.py:214-265 is a copy),     *)
(* called on its own as test/test_analyze_sentiment.py:51 calls it.  The   *)
(* value it returns is kept with its Python type.                          *)
(***************************************************************************)
Commenters == {"bob", "carol"}

\* the comments argument: a list as fetch_comments returns it
CommentLists ==
    SeqsUpTo({[author |-> a, body |-> "fine", score |-> 1] : a \in Commenters},
             NNodes)

\* llm.py:282, 284, 288: return sentiment, confidence
PyTuple(pair) == [type |-> "tuple", items |-> pair]

\* nothing has been returned
NoValue == [type |-> "none", items |-> <<>>]

InitScoring ==
    /\ EngineAtRest
    /\ fetch_state = <<>>
    /\ item_store = {}
    /\ HarvestAtRest
    /\ SinkAtRest
    /\ MainAtRest
    /\ transport = <<>>
    /\ attempts = 0
    /\ raised = Null
    /\ tree = NoTree
    /\ comments \in CommentLists
    /\ fpc = "idle"
    /\ retry_count = 0
    /\ rpc = "idle"
    /\ actual_sentiments = NoValue
    /\ lpc = "call"
    /\ ClientAtRest

\* llm.py:235-288: one call of analyze_sentiment(post, comments, images); the
\* inference service answers in some way
AnalyzeSentimentCall ==
    /\ lpc = "call"
    /\ \E resp \in ScoreResponses :
        /\ llm_response' = resp.kind
        /\ actual_sentiments' = PyTuple(analyze_sentiment(resp))
    /\ lpc' = "returned"
    /\ UNCHANGED <<progress_file, feedback, limit, pc, processed_ids,
                   posts_to_process, idx, post_id, temp_dir, is_relevant, username,
                   sentiment, confidence, exit, stop_reason, loaded, attempted,
                   completed, stages, failed_stage, crashed>>
    /\ UNCHANGED <<hvars, svars, fvars, mvars, cvars>>

NextScoring == AnalyzeSentimentCall

SpecScoring == InitScoring /\ [][NextScoring]_vars

(***************************************************************************)
(* llm.py:112-147 (and the copy in src/llm_client.py:101-130):             *)
(* LLMClient._call, one call.  _make_request returns the message, raises   *)
(* urllib's HTTPError with the status code of the response, or raises      *)
(* another exception (URLError, a timeout, a body that is not the expected *)
(* JSON).  The body of an error response can be read and decoded.          *)
(***************************************************************************)
\* status codes urlopen raises HTTPError for
HTTPCodes == {304, 400, 404, 429, 499, 500, 503}

NoError == [kind |-> "none", code |-> 0]

LLMOutcomes ==
    {[kind |-> "ok", code |-> 200], [kind |-> "Exception", code |-> 0]}
    \cup {[kind |-> "HTTPError", code |-> c] : c \in HTTPCodes}

\* what leaves _call after the loop: Exception("Failed after ... attempts")
FailedAfter == [kind |-> "Failed", code |-> 0]

InitLLMCall ==
    /\ EngineAtRest
    /\ fetch_state = <<>>
    /\ item_store = {}
    /\ HarvestAtRest
    /\ SinkAtRest
    /\ FetchAtRest
    /\ MainAtRest
    /\ ScoringAtRest
    /\ max_retries \in 0..MaxConfiguredRetries
    /\ llm_outcomes \in [1..MaxConfiguredRetries -> LLMOutcomes]
    /\ attempt = 0
    /\ made = 0
    /\ last_error = NoError
    /\ call_raised = NoError
    /\ cpc = "try"

\* a client that treats a rate limit like the other 4xx responses
NoRetryAlso429(code) == 400 <= code /\ code < 500

\* llm.py:124  if 400 <= e.code < 500 and e.code != 429: raise
NoRetry(code) == 400 <= code /\ code < 500 /\ code # 429

\* llm.py:116  for attempt in range(self.max_retries)
InLoop == attempt < max_retries

\* llm.py:117-118: _make_request returns and _call returns its message
MakeRequest ==
    /\ UNCHANGED <<pvars, hvars, svars, fvars, mvars, lvars>>
    /\ cpc = "try"
    /\ InLoop
    /\ made < Len(llm_outcomes)
    /\ llm_outcomes[made + 1].kind = "ok"
    /\ made' = made + 1
    /\ cpc' = "returned"
    /\ UNCHANGED <<max_retries, llm_outcomes, attempt, last_error, call_raised>>

\* llm.py:119-133: except error.HTTPError: a 4xx response other than 429 is
\* raised again; after any other one the loop goes on (having slept unless this
\* was the last round)
HandleHTTPError ==
    /\ UNCHANGED <<pvars, hvars, svars, fvars, mvars, lvars>>
    /\ cpc = "try"
    /\ InLoop
    /\ made < Len(llm_outcomes)
    /\ llm_outcomes[made + 1].kind = "HTTPError"
    /\ made' = made + 1
    /\ last_error' = llm_outcomes[made + 1]
    /\ IF NoRetry(llm_outcomes[made + 1].code)
       THEN /\ cpc' = "raised"
            /\ call_raised' = llm_outcomes[made + 1]
            /\ UNCHANGED attempt
       ELSE /\ attempt' = attempt + 1
            /\ UNCHANGED <<cpc, call_raised>>
    /\ UNCHANGED <<max_retries, llm_outcomes>>

\* llm.py:134-143: except Exception: the loop goes on (having slept unless this
\* was the last round)
HandleException ==
    /\ UNCHANGED <<pvars, hvars, svars, fvars, mvars, lvars>>
    /\ cpc = "try"
    /\ InLoop
    /\ made < Len(llm_outcomes)
    /\ llm_outcomes[made + 1].kind = "Exception"
    /\ made' = made + 1
    /\ last_error' = llm_outcomes[made + 1]
    /\ attempt' = attempt + 1
    /\ UNCHANGED <<max_retries, llm_outcomes, call_raised, cpc>>

\* llm.py:145-147: the loop is over without a return
RaiseFailed ==
    /\ UNCHANGED <<pvars, hvars, svars, fvars, mvars, lvars>>
    /\ cpc = "try"
    /\ ~InLoop
    /\ cpc' = "raised"
    /\ call_raised' = FailedAfter
    /\ UNCHANGED <<max_retries, llm_outcomes, attempt, made, last_error>>

NextLLMCall ==
    \/ MakeRequest
    \/ HandleHTTPError
    \/ HandleException
    \/ RaiseFailed

SpecLLMCall == InitLLMCall /\ [][NextLLMCall]_vars

(***************************************************************************)
(* Properties of the processing engine.                                    *)
(***************************************************************************)
Min(a, b) == IF a < b THEN a ELSE b

IsPrefix(s, t) == Len(s) <= Len(t) /\ SubSeq(t, 1, Len(s)) = s

Stopped == pc \in {"done", "stopped"}

\* C1: whenever process_posts stops (completion, fatal error, interrupt) the
\* progress file equals the set loaded at start plus exactly the ids that reached
\* Done or Skipped in this run, and the id of the item in flight is not in it.
C1_CheckpointConsistentAtStop ==
    Stopped =>
        /\ progress_file = loaded \cup completed
        /\ (pc = "stopped" /\ post_id \notin completed) => post_id \notin progress_file

\* C2: if the comment fetch of a relevant item raises, the Checkpoint Set is
\* persisted and the run stops: no later item is attempted, the failing item has
\* no Result Sink write, and its id is not in the persisted Checkpoint Set.
C2_CommentFetchFailureIsFatal ==
    failed_stage = "comments" =>
        /\ progress_file = processed_ids
        /\ progress_file = loaded \cup completed
        /\ post_id \notin progress_file
        /\ "persist" \notin stages
        /\ attempted # <<>> /\ attempted[Len(attempted)] = post_id
        /\ \/ pc = "finally" /\ exit = "error"
           \/ pc = "stopped"

C2_Witness ==
    /\ failed_stage = "comments"
    /\ pc = "stopped"
    /\ stop_reason = "error"
    /\ completed # {}
    /\ Len(attempted) < Len(posts_to_process)

\* the relevance call of the current item raised or returned no parsable object
ClassifyFailed ==
    /\ "classify" \in stages
    /\ "scoring" \notin stages
    /\ llm_response \in FailureKinds

\* C3: if the relevance call raises or returns text without a parsable JSON
\* object, the item ends Skipped: its id is in the Checkpoint Set, no comment
\* fetch, scoring or Result Sink write happens for it, and the run goes on with
\* the next item (only an interrupt or the end of the list stops it there).
C3_ClassificationFailureSkips ==
    ClassifyFailed =>
        /\ ~is_relevant
        /\ post_id \in processed_ids
        /\ post_id \in completed
        /\ stages = {"images", "classify"}
        /\ failed_stage = Null
        /\ \/ pc = "finally" /\ exit = "continue"
           \/ pc = "loop" /\ idx = Len(attempted) + 1
           \/ pc = "done"
           \/ pc = "stopped" /\ stop_reason = "interrupt"

C3_Witness ==
    /\ ClassifyFailed
    /\ llm_response = "malformed"
    /\ pc = "loop"
    /\ idx <= Len(posts_to_process)

\* the items a run has to attempt: those of the input whose id is not in the
\* loaded set, in input order, cut to the limit when one is given
C4_Expected ==
    LET u == SelectSeq(all_posts, LAMBDA id : id \notin loaded)
    IN IF limit = NoLimit THEN u ELSE SubSeq(u, 1, Min(limit, Len(u)))

\* C4: a run attempts exactly the items of the input whose id is not in the
\* loaded Checkpoint Set, in input order, truncated to the limit, as far as it
\* gets; it never attempts an item whose id is in the loaded set.
C4_ResumeAttemptsExactlyUnprocessed ==
    (pc \in Running \/ Stopped) =>
        /\ IsPrefix(attempted, C4_Expected)
        /\ Range(attempted) \cap loaded = {}
        /\ pc = "loop" => Len(attempted) = idx - 1
        /\ pc = "done" => attempted = C4_Expected

C4_Witness ==
    /\ pc = "done"
    /\ loaded = {1, 3}
    /\ limit = 2
    /\ attempted = <<2, 4>>

\* C5: an interrupt arriving at any point of the per-item loop has the Checkpoint
\* Set persisted before it propagates.
C5_InterruptAlwaysPersists ==
    (pc = "stopped" /\ stop_reason = "interrupt") => progress_file = processed_ids

\* C6: after the item at every position that is a multiple of 5 has finished, in
\* Done or in Skipped, the persisted Checkpoint Set equals the in-memory set, so at
\* an item boundary fewer than 5 completed items are unpersisted.
C6_SavedEveryFiveItems ==
    pc = "loop" =>
        /\ (idx > 1 /\ (idx - 1) % SAVE_EVERY = 0) => progress_file = processed_ids
        /\ Cardinality(processed_ids \ progress_file) < SAVE_EVERY

\* C7: an item whose pipeline had started when the process died, and whose id was
\* in no persisted Checkpoint Set, is selected again by the next run, and the
\* repeated Result Sink write leaves one feedback row for its pair.
C7_CrashedItemIsReprocessed ==
    /\ (crashed # {} /\ pc # "dead") =>
           /\ crashed \subseteq Range(posts_to_process)
           /\ crashed \cap loaded = {}
    /\ \A r1, r2 \in feedback : SamePair(r1, r2) => r1 = r2

C7_Witness ==
    /\ post_id \in crashed
    /\ pc = "mark"
    /\ {"persist", "conflict"} \subseteq stages
    /\ Cardinality({r \in feedback :
           SamePair(r, FeedbackRow(post_id, username, sentiment, confidence))}) = 1

\* the scoring call of the current item raised or returned no parsable object
ScoreFailed ==
    /\ "scoring" \in stages
    /\ llm_response \in FailureKinds

\* C13: when the scoring call raises or returns text without a parsable JSON
\* object, the failure does not stop the item: the row written for it has rating
\* NEUTRAL and its comment carries confidence low, and the item reaches Done.
C13_ScoringFailureGivesNeutralLow ==
    ScoreFailed =>
        /\ failed_stage # "scoring"
        /\ pc \in {"persisting", "mark"} =>
               /\ sentiment = "neutral"
               /\ confidence = "low"
        /\ pc = "mark" =>
               \E r \in feedback :
                   /\ r = FeedbackRow(post_id, username, sentiment, confidence)
                   /\ r.rating = "NEUTRAL"
                   /\ r.comment = "low"
        /\ ("persist" \in stages /\ exit = "normal") => post_id \in processed_ids

C13_Witness ==
    /\ ScoreFailed
    /\ llm_response = "raise"
    /\ "persist" \in stages
    /\ pc = "finally"
    /\ exit = "normal"
    /\ post_id \in completed
    /\ \E r \in feedback : r.rating = "NEUTRAL" /\ r.comment = "low"

\* the relevance flag of the current item is false
NotRelevant ==
    /\ "classify" \in stages
    /\ ~is_relevant

\* C14: for an item whose relevance flag is false the id is added to the
\* Checkpoint Set and nothing else is done for it: no comment fetch, no scoring
\* call and no Result Sink write.
C14_NotRelevantOnlyCheckpoints ==
    NotRelevant =>
        /\ post_id \in processed_ids
        /\ post_id \in completed
        /\ stages \cap {"comments", "scoring", "persist"} = {}
        /\ pc \in {"finally", "loop", "done", "stopped"}
        /\ failed_stage = Null

C14_Witness ==
    /\ NotRelevant
    /\ llm_response = "json"
    /\ pc = "loop"
    /\ post_id \in processed_ids
    /\ feedback = {}

\* C15: the Result Sink write of an item is committed before its id is added to
\* the Checkpoint Set: whenever the id of the current, relevant item is in the
\* in-memory or the persisted Checkpoint Set, its feedback row has been written.
C15_SinkWriteBeforeCheckpoint ==
    (post_id # NoPost /\ is_relevant /\ post_id \in processed_ids \cup progress_file) =>
        /\ "persist" \in stages
        /\ \E r \in feedback : r.giver = Author(post_id)
        /\ (pc = "finally" /\ exit = "normal") =>
               FeedbackRow(post_id, username, sentiment, confidence) \in feedback

C15_Witness ==
    /\ is_relevant
    /\ post_id \in processed_ids
    /\ post_id \in progress_file
    /\ pc = "finally"
    /\ exit = "normal"
    /\ FeedbackRow(post_id, username, sentiment, confidence) \in feedback

\* C16: an exception raised in the per-item pipeline outside the comment fetch
\* (the Result Sink write) has the Checkpoint Set persisted and ends the run before
\* the next item is attempted; the failing item's id is not in the Checkpoint Set
\* and no row was written by the failing write.
C16_OtherFailureIsFatal ==
    failed_stage \notin {Null, "comments"} =>
        /\ failed_stage = "persist"
        /\ progress_file = processed_ids
        /\ progress_file = loaded \cup completed
        /\ post_id \notin processed_ids
        /\ "persist" \notin stages
        /\ attempted # <<>> /\ attempted[Len(attempted)] = post_id
        /\ \/ pc = "finally" /\ exit = "error"
           \/ pc = "stopped"

C16_Witness ==
    /\ failed_stage = "persist"
    /\ pc = "stopped"
    /\ stop_reason = "error"
    /\ completed # {}
    /\ progress_file = loaded \cup completed
    /\ Len(attempted) < Len(posts_to_process)

\* C17: the temporary directory of an item is removed when the attempt ends in
\* any way: whenever process_posts is between two items or has stopped, no
\* temporary directory of the run exists.
C17_TempDirRemovedAtItemEnd ==
    pc \in {"loop", "done", "stopped"} => ~temp_dir

\* C18: in every engine variant each selected item passes through the image
\* stage into classification: when the attempt of an item has ended other than by
\* an interrupt, the image stage and the relevance call have run for it.
C18_ImageStageThenClassification ==
    (pc = "finally" /\ exit # "interrupt") => {"images", "classify"} \subseteq stages

\* the positions of the writes for the pair of the row
WritesFor(r) == {i \in 1..Len(write_calls) : SamePair(write_calls[i], r)}

FirstWrite(r) == CHOOSE i \in WritesFor(r) : \A j \in WritesFor(r) : i <= j

LatestWrite(r) == CHOOSE i \in WritesFor(r) : \A j \in WritesFor(r) : j <= i

\* the feedback table holds one row for each pair written
FeedbackOneRowPerPair ==
    /\ \A r1, r2 \in feedback : SamePair(r1, r2) => r1 = r2
    /\ \A i \in 1..Len(write_calls) : \E r \in feedback : SamePair(r, write_calls[i])
    /\ \A r \in feedback : WritesFor(r) # {}

\* the row of a pair carries the rating and the comment of the latest write
FeedbackLatestWins ==
    \A r \in feedback :
        WritesFor(r) # {} =>
            /\ r.rating = write_calls[LatestWrite(r)].rating
            /\ r.comment = write_calls[LatestWrite(r)].comment

\* C20: after any sequence of Result Sink writes the feedback table holds one row
\* for each pair written, with the rating and the comment of the latest write for
\* the pair; after a second write for a pair the row's updated-at is newer than
\* the one the first write left.
C20_FeedbackMerge ==
    /\ FeedbackOneRowPerPair
    /\ FeedbackLatestWins
    /\ \A r \in feedback :
           Cardinality(WritesFor(r)) >= 2 =>
               r.updated_at > write_calls[FirstWrite(r)].updated_at

\* the rating the sentiment-to-rating table of the specification gives
ExpectedRating(s) ==
    IF s = "positive" THEN "POSITIVE"
    ELSE IF s = "negative" THEN "NEGATIVE"
    ELSE "NEUTRAL"

\* C21: the sentiment-to-rating mapping is total: every call of insert_feedback
\* is written (none fails in the mapping), and the row written carries POSITIVE
\* for positive, NEGATIVE for negative, NEUTRAL for neutral and NEUTRAL for every
\* other sentiment value.
C21_RatingMappingTotal ==
    write_calls # <<>> =>
        /\ sentiment \in Sentiments
        /\ write_calls[Len(write_calls)].rating = ExpectedRating(sentiment)
        /\ \E r \in feedback :
               /\ SamePair(r, write_calls[Len(write_calls)])
               /\ r.rating = ExpectedRating(sentiment)

\* a call with a sentiment outside the table has been written as NEUTRAL
C21_Witness ==
    /\ write_calls # <<>>
    /\ sentiment \in {"mixed", "Positive", Null}
    /\ \E r \in feedback : r.rating = "NEUTRAL"

(***************************************************************************)
(* Properties of the harvester.                                            *)
(***************************************************************************)
StoredNames == {r.id : r \in item_store}

Occurrences(seq, x) == Cardinality({i \in 1..Len(seq) : seq[i] = x})

\* C8: when a harvest cycle stopped early because a page fetch failed and it
\* wrote the cursor, the cursor is not advanced past a post of the page that was
\* not fetched: each such post is in the Item Store or is not older than the new
\* watermark, so a later cycle can still harvest it.
C8_CursorNotAdvancedPastUnfetched ==
    (cycle_result = "saved" /\ page_failed) =>
        \A m \in missed :
            \/ m \in StoredNames
            \/ CreatedUtc(m) >= fetch_state[subreddit].last_post_timestamp

\* C9: when the listing API returned the same post on two pages of one harvest
\* call, the list returned by fetch_subreddit_posts holds that post exactly once.
C9_OverlapYieldsOneCopy ==
    (hpc \in {"returned", "save_state", "done"} /\ overlap) =>
        \A n \in Range(all_new_posts) : Occurrences(all_new_posts, n) = 1

\* C10: the last-seen timestamp a successful harvest cycle writes for a source is
\* greater than or equal to the one stored before it.
C10_TimestampNeverDecreases ==
    [][\A s \in DOMAIN fetch_state \cap DOMAIN fetch_state' :
           fetch_state'[s].last_post_timestamp >= fetch_state[s].last_post_timestamp]_vars

\* fetch_subreddit_posts has returned (fetch.py:193)
Returned == hpc \in {"returned", "save_state", "done"} /\ cycle_result # "skipped"

C12_NoWatermarkSkipsHarvest ==
    [][(hpc = "idle" /\ subreddit' \notin DOMAIN fetch_state) =>
           /\ hpc' = "done"
           /\ requests' = <<>>
           /\ item_store' = item_store
           /\ fetch_state' = fetch_state
           /\ subreddit' \notin DOMAIN fetch_state'
           /\ new_count' = 0]_vars

C12_Witness ==
    /\ hpc = "done"
    /\ cycle_result = "skipped"
    /\ subreddit = "InstaShoppingFails"
    /\ subreddit \notin DOMAIN fetch_state
    /\ "InstagramShops" \in DOMAIN fetch_state
    /\ requests = <<>>
    /\ new_count = 0

\* the position of the latest call of insert_post for the identifier
LatestCall(id) ==
    CHOOSE i \in 1..Len(insert_calls) :
        /\ insert_calls[i].id = id
        /\ \A j \in (i + 1)..Len(insert_calls) : insert_calls[j].id # id

\* C19: after any sequence of insert_post calls the Item Store holds exactly one
\* row for each identifier inserted, and the row carries the payload of the
\* latest call for that identifier.
C19_OneRowPerIdLatestPayload ==
    /\ StoredNames = {insert_calls[i].id : i \in 1..Len(insert_calls)}
    /\ \A r1, r2 \in item_store : r1.id = r2.id => r1 = r2
    /\ \A r \in item_store : r = insert_calls[LatestCall(r.id)]

C19_Witness ==
    /\ Len(insert_calls) = 3
    /\ insert_calls[1].id = insert_calls[3].id
    /\ insert_calls[1].payload # insert_calls[3].payload
    /\ insert_calls[2].id # insert_calls[1].id
    /\ Cardinality(item_store) = 2
    /\ insert_calls[3] \in item_store

(***************************************************************************)
(* Properties of the comment flattener.                                    *)
(***************************************************************************)
RECURSIVE Path(_, _)
\* the nodes from the top Listing down to node n, n included
Path(t, n) == IF n = 0 THEN <<>> ELSE Append(Path(t, t.parent[n]), n)

\* the proper ancestors of node n
Ancestors(t, n) == Range(Path(t, n)) \ {n}

\* node n is reached through listings and replies: it hangs below comments only
Reachable(t, n) == \A m \in Ancestors(t, n) : t.data[m].kind = "t1"

\* node n is a comment that is neither tombstoned nor by a deleted author
PassesFilter(t, n) ==
    /\ t.data[n].kind = "t1"
    /\ t.data[n].body # "[deleted]"
    /\ t.data[n].body # "[removed]"
    /\ t.data[n].author # "[deleted]"

\* fetch_comments has returned the flattened tree of a response
Flattened == fpc = "returned" /\ tree # NoTree

\* the number of entries of the returned list that came from node n
Emitted(n) == Cardinality({i \in 1..Len(comments) : comments[i].score = n})

\* path p comes before path q in depth-first pre-order: p leads to an ancestor
\* of q's node, or where the two part p takes the earlier child
PreOrderBefore(p, q) ==
    /\ p # q
    /\ \/ IsPrefix(p, q)
       \/ \E k \in 1..Min(Len(p), Len(q)) :
              /\ SubSeq(p, 1, k - 1) = SubSeq(q, 1, k - 1)
              /\ p[k] < q[k]

\* C22: every comment in the list the flattener returns has a body different
\* from "[deleted]" and from "[removed]" and an author different from
\* "[deleted]", whatever the input tree.
C22_NoTombstoneInOutput ==
    \A i \in 1..Len(comments) :
        /\ comments[i].body # "[deleted]"
        /\ comments[i].body # "[removed]"
        /\ comments[i].author # "[deleted]"

\* a tree with a removed comment and a comment by a deleted author has been
\* flattened, and something was returned
C22_Witness ==
    /\ Flattened
    /\ comments # <<>>
    /\ \E n \in Nodes : Reachable(tree, n) /\ tree.data[n].body = "[removed]"
    /\ \E n \in Nodes :
           /\ Reachable(tree, n)
           /\ tree.data[n].kind = "t1"
           /\ tree.data[n].body = "fine"
           /\ tree.data[n].author = "[deleted]"

\* C23: an excluded comment does not hide its descendants: every comment node
\* that passes the filter and is reachable through listings and replies is in
\* the returned list exactly once, also below excluded ancestors.
C23_ExcludedParentKeepsDescendants ==
    Flattened =>
        \A n \in Nodes :
            (PassesFilter(tree, n) /\ Reachable(tree, n)) => Emitted(n) = 1

\* a comment was returned whose parent and grandparent were both excluded
C23_Witness ==
    /\ Flattened
    /\ \E n \in Nodes :
           /\ Emitted(n) = 1
           /\ Cardinality(Ancestors(tree, n)) = 2
           /\ \A m \in Ancestors(tree, n) : ~PassesFilter(tree, m)

\* C24: the returned list is the depth-first pre-order of the comment nodes that
\* pass the filter: it holds those nodes and no others, a parent before all of
\* its replies and siblings in the order of their listing.
C24_DepthFirstPreOrder ==
    Flattened =>
        /\ \A n \in Nodes :
               Emitted(n) = IF PassesFilter(tree, n) /\ Reachable(tree, n) THEN 1 ELSE 0
        /\ \A i, j \in 1..Len(comments) :
               i < j => PreOrderBefore(Path(tree, comments[i].score),
                                       Path(tree, comments[j].score))

\* a reply was returned before a sibling of its parent: the list is
\* <<parent, reply, sibling>>
C24_Witness ==
    /\ Flattened
    /\ Len(comments) = 3
    /\ tree.parent[comments[2].score] = comments[1].score
    /\ tree.parent[comments[3].score] = tree.parent[comments[1].score]

\* C27: a transport failure (non-zero exit or timeout) of the comment fetch is
\* retried before it escalates: when the first request fails in transport and
\* the next one would be answered, fetch_comments does not raise, so the run
\* is not terminated.
C27_TransientFailureIsRetried ==
    (transport[1] \in TransportFailures /\ transport[2] = "ok") => fpc # "raised"

(***************************************************************************)
(* Properties of make_reddit_request.                                      *)
(***************************************************************************)
\* the runs of curlfire made so far
Made == 1..attempts

\* C25: make_reddit_request makes a bounded number of attempts for one URL: at
\* most MAX_RETRIES + 1 = 4; when a transport failure is raised, every one of
\* the 4 attempts failed in transport and the exception is the last attempt's;
\* and a response is returned on the first attempt that succeeds, with no
\* attempt after it.
C25_BoundedAttempts ==
    /\ attempts <= MAX_RETRIES + 1
    /\ MAX_RETRIES + 1 = 4
    /\ (rpc = "raised" /\ raised \in {"CalledProcessError", "TimeoutExpired"}) =>
           /\ attempts = MAX_RETRIES + 1
           /\ \A k \in Made : transport[k] \in TransportFailures
           /\ raised = ExceptionOf(transport[attempts])
    /\ (\A k \in 1..(MAX_RETRIES + 1) : transport[k] \in TransportFailures) =>
           rpc # "returned"
    /\ rpc = "returned" =>
           /\ transport[attempts] = "ok"
           /\ \A k \in Made : transport[k] = "ok" => k = attempts
    /\ \A k \in Made : transport[k] = "ok" => (k = attempts /\ rpc = "returned")

\* four attempts were made, a non-zero exit first and a timeout last, and the
\* timeout was raised
C25_Witness ==
    /\ rpc = "raised"
    /\ attempts = MAX_RETRIES + 1
    /\ transport[1] = "exit"
    /\ raised = "TimeoutExpired"

\* C26: a JSON-decode failure in make_reddit_request is never retried: it
\* leaves the function on the attempt where it occurs, also when that attempt
\* is a retry made after transport failures.
C26_DecodeFailureNotRetried ==
    \A k \in Made :
        transport[k] = "badjson" =>
            /\ k = attempts
            /\ rpc = "raised"
            /\ raised = "JSONDecodeError"

\* the third attempt, a retry after two transport failures, returned output
\* that does not decode, and the failure was raised
C26_Witness ==
    /\ rpc = "raised"
    /\ raised = "JSONDecodeError"
    /\ attempts = 3
    /\ retry_count = 2

\* C29: fetch_subreddit_posts writes nothing to the Cursor Store or the Item
\* Store on any path: no step of its paging loop changes the cursor records or
\* the posts table or calls insert_post; they change only in the steps of its
\* caller fetch_and_save_posts, after it has returned.
C29_PagingWritesNothing ==
    [][/\ hpc = "paging" =>
              /\ fetch_state' = fetch_state
              /\ item_store' = item_store
              /\ insert_calls' = insert_calls
       /\ (fetch_state' # fetch_state \/ item_store' # item_store) =>
              hpc \in {"returned", "save_state"}]_vars

\* fetch_subreddit_posts has returned after a page that held posts and a page
\* that failed, and no store has been written
C29_Witness ==
    /\ hpc = "returned"
    /\ page_failed
    /\ all_new_posts # <<>>
    /\ insert_calls = <<>>
    /\ item_store = StoredUpTo(fetch_state)

(***************************************************************************)
(* Properties of main of the harvester.                                    *)
(***************************************************************************)
\* C28: a storage error raised while upserting harvested items or writing the
\* Cursor Store during a harvest cycle terminates the harvesting run: the source
\* whose cycle raised it is the last one harvested, and the run does not go on
\* to its summary.
C28_StorageErrorEndsRun ==
    \A i \in 1..Len(harvested) :
        plan[harvested[i]].kind \in StorageErrors =>
            /\ i = Len(harvested)
            /\ mpc # "done"

(***************************************************************************)
(* Properties of analyze_sentiment.                                        *)
(***************************************************************************)
\* the authors of the comments passed to analyze_sentiment
AuthorsOf(cs) == {cs[i].author : i \in 1..Len(cs)}

\* C30: analyze_sentiment(post, comments, images) returns a list of entries, one
\* per commenter, each carrying the comment's author and a sentiment label, so
\* that the caller can look up the sentiment per author.
C30_SentimentPerCommenter ==
    lpc = "returned" =>
        /\ actual_sentiments.type = "list"
        /\ Len(actual_sentiments.items) = Cardinality(AuthorsOf(comments))
        /\ \A a \in AuthorsOf(comments) :
               \E i \in 1..Len(actual_sentiments.items) :
                   actual_sentiments.items[i].author = a

(***************************************************************************)
(* Further properties of the harvester: the paging loop and the cursor     *)
(* record.                                                                 *)
(***************************************************************************)
\* the response to the last page request ends the paging loop
LastPageEnds(page) == ~page.items \/ ~page.token \/ page.raised

\* C31: fetch_subreddit_posts sends no page request after the first response that
\* holds no items, holds no continuation token, or whose request raised after
\* the retries: that response makes it return, and requests are sent only inside
\* the loop.  When the request raised, it returns, with every item accepted
\* from the earlier pages.
C31_StopsAtFirstEndingPage ==
    [][/\ requests' # requests =>
              /\ hpc = "paging"
              /\ LastPageEnds(last_page') => hpc' = "returned"
              /\ last_page'.raised => all_new_posts' = all_new_posts
       /\ hpc \in {"returned", "save_state", "done"} =>
              /\ requests' = requests
              /\ all_new_posts' = all_new_posts]_vars

\* the second page request raised after the first page gave a post, and the call
\* went on with that post to the stores
C31_Witness ==
    /\ last_page.raised
    /\ Len(requests) = 2
    /\ Len(all_new_posts) = 1
    /\ hpc = "done"
    /\ cycle_result = "saved"

\* C32: the first page request of a harvest call carries the stored watermark as
\* its before-parameter; every later request carries the continuation token of
\* the page just before it as its after-parameter, and no watermark.
C32_WatermarkOnFirstRequestOnly ==
    /\ \A k \in 1..Len(requests) :
           requests[k] = IF k = 1 THEN <<"before", last_post_id>>
                         ELSE <<"after", PageToken(k - 1)>>
    /\ hpc \in {"paging", "returned", "save_state"} =>
           last_post_id = StoredLastPostId(fetch_state, subreddit)

C32_Witness ==
    /\ Len(requests) = 2
    /\ requests[1][1] = "before"
    /\ requests[2][1] = "after"
    /\ hpc = "returned"

\* the posts table holds a row for every harvested post
AllUpserted ==
    \A n \in Range(all_new_posts) :
        /\ \E r \in item_store : r.id = n
        /\ \E i \in 1..Len(insert_calls) : insert_calls[i].id = n

\* C37: within a harvest cycle the Cursor Store is written only after every
\* harvested item has been upserted into the Item Store; a cycle that stops
\* between the two steps ends with the cursor records it found, the old
\* watermark among them.
C37_CursorWrittenAfterUpserts ==
    [][/\ fetch_state' # fetch_state =>
              /\ hpc = "save_state"
              /\ AllUpserted
              /\ cycle_result' = "saved"
       /\ cycle_result' = "storage_error" =>
              /\ fetch_state' = fetch_state
              /\ StoredLastPostId(fetch_state', subreddit) = last_post_id]_vars

\* the store raised at the second of two harvested posts: the first is in the
\* posts table and the watermark is the old one
C37_Witness ==
    /\ cycle_result = "storage_error"
    /\ Len(all_new_posts) = 2
    /\ Len(insert_calls) = 1
    /\ fetch_state[subreddit].last_post_id = last_post_id
    /\ last_post_id \notin Range(all_new_posts)

\* C38: a harvest cycle that harvests no item leaves the cursor records as they
\* are, the one of its source included, and writes nothing to the Item Store:
\* as long as the list of harvested posts is empty, no step changes either.
C38_EmptyCycleWritesNothing ==
    [][all_new_posts' = <<>> =>
           /\ fetch_state' = fetch_state
           /\ item_store' = item_store
           /\ insert_calls' = insert_calls]_vars

\* a cycle with a watermark asked for a page, got no post, and ended
C38_Witness ==
    /\ hpc = "done"
    /\ cycle_result = "empty"
    /\ Len(requests) = 1
    /\ all_new_posts = <<>>
    /\ new_count = 0
    /\ fetch_state \in InitialFetchStates

\* C39: after a successful cycle the stored last_post_id and last_post_timestamp
\* of the source describe one post: a post harvested in that cycle, whose
\* creation timestamp is the stored one.
C39_CursorDescribesOneHarvestedItem ==
    cycle_result = "saved" =>
        /\ fetch_state[subreddit].last_post_id \in Range(all_new_posts)
        /\ fetch_state[subreddit].last_post_timestamp =
               CreatedUtc(fetch_state[subreddit].last_post_id)

\* two posts were harvested, the older one last, and the record names the newer
C39_Witness ==
    /\ cycle_result = "saved"
    /\ Len(all_new_posts) = 2
    /\ fetch_state[subreddit].last_post_id = all_new_posts[1]
    /\ all_new_posts[2] < all_new_posts[1]
    /\ fetch_state[subreddit].last_post_timestamp = CreatedUtc(all_new_posts[1])

\* C40: a call of fetch_and_save_posts for one source leaves the cursor record
\* of every other source as it is, present or absent, and a successful cycle
\* raises the cumulative count of its source by exactly the number of items the
\* cycle returned.
C40_OtherSourcesUntouchedCountExact ==
    [][/\ \A s \in Subreddits \ {subreddit'} :
              /\ (s \in DOMAIN fetch_state') = (s \in DOMAIN fetch_state)
              /\ s \in DOMAIN fetch_state => fetch_state'[s] = fetch_state[s]
       /\ (cycle_result' = "saved" /\ cycle_result # "saved") =>
              /\ new_count' = Len(all_new_posts)
              /\ subreddit \in DOMAIN fetch_state
              /\ fetch_state'[subreddit].total_posts_fetched =
                     fetch_state[subreddit].total_posts_fetched + new_count']_vars

\* both sources have a record; the cycle of one returned two posts and its count
\* went from one to three, the other record is the one the cycle found
C40_Witness ==
    /\ cycle_result = "saved"
    /\ DOMAIN fetch_state = Subreddits
    /\ new_count = 2
    /\ fetch_state[subreddit].total_posts_fetched = 3
    /\ \A s \in Subreddits \ {subreddit} : fetch_state[s] = Cursor(1, CreatedUtc(1), 1)

(***************************************************************************)
(* Further properties of the processing engine: the Checkpoint Set.        *)
(***************************************************************************)
\* C36: during a run the Checkpoint Set in memory only grows, and no save removes
\* an identifier: every set a run writes to the progress file holds the set the
\* run loaded and every set written before it.
C36_CheckpointSetOnlyGrows ==
    [][/\ progress_file \subseteq progress_file'
       /\ (pc \in Running /\ pc' # "dead") => processed_ids \subseteq processed_ids'
       /\ pc' \in Running =>
              /\ loaded' \subseteq processed_ids'
              /\ loaded' \subseteq progress_file']_vars

\* a run that loaded a non-empty Checkpoint Set has completed and its last save
\* holds more than it loaded
C36_Witness ==
    /\ pc = "done"
    /\ loaded # {}
    /\ loaded \subseteq progress_file
    /\ progress_file # loaded
    /\ progress_file = processed_ids

(***************************************************************************)
(* Further properties of the flattener: comments without replies.          *)
(***************************************************************************)
\* comment n is reached and its replies field is absent, empty or false
LeafComment(t, n) ==
    /\ Reachable(t, n)
    /\ t.data[n].kind = "t1"
    /\ RepliesField(t, n) \in LeafReplies

\* the position in the returned list of the entry that came from node n
PositionOf(n) == CHOOSE i \in 1..Len(comments) : comments[i].score = n

\* C33: for a comment whose replies field is absent, empty or the boolean false,
\* the flattener emits the comment if it passes the filter, processes nothing
\* below it, raises no error, and goes on with the siblings that follow it:
\* each of those that passes the filter is emitted, after the comment.
C33_NoRepliesNoRecursion ==
    Flattened =>
        /\ raised = Null
        /\ \A n \in Nodes :
               LeafComment(tree, n) =>
                   /\ Emitted(n) = IF PassesFilter(tree, n) THEN 1 ELSE 0
                   /\ \A i \in 1..(Len(comments) - 1) :
                          comments[i].score = n =>
                              n \notin Ancestors(tree, comments[i + 1].score)
                   /\ \A m \in Nodes :
                          (m > n /\ tree.parent[m] = tree.parent[n]
                                 /\ PassesFilter(tree, m)) =>
                              /\ Emitted(m) = 1
                              /\ PassesFilter(tree, n) => PositionOf(n) < PositionOf(m)

\* a comment whose replies field is false was emitted and the entry after it
\* came from its next sibling
C33_Witness ==
    /\ Flattened
    /\ tree.leaf = "false"
    /\ raised = Null
    /\ \E i \in 1..(Len(comments) - 1) :
           /\ LeafComment(tree, comments[i].score)
           /\ tree.parent[comments[i + 1].score] = tree.parent[comments[i].score]

(***************************************************************************)
(* Properties of the inference client.                                     *)
(***************************************************************************)
\* the outcome is an HTTP 4xx response other than 429
ClientError(o) == o.kind = "HTTPError" /\ o.code \in 400..499 /\ o.code # 429

\* C34: one call of LLMClient._call makes at most max_retries attempts.  An
\* HTTP 4xx response other than 429 is raised again at once, with no attempt
\* after it; after every other failure another attempt is made while attempts
\* remain; and after max_retries failed attempts the call raises.
C34_BoundedAttemptsOfCall ==
    /\ made <= max_retries
    /\ \A k \in 1..(made - 1) :
           llm_outcomes[k].kind # "ok" /\ ~ClientError(llm_outcomes[k])
    /\ (made > 0 /\ ClientError(llm_outcomes[made])) =>
           cpc = "raised" /\ call_raised = llm_outcomes[made]
    /\ cpc \in {"returned", "raised"} =>
           \/ made > 0 /\ llm_outcomes[made].kind = "ok" /\ cpc = "returned"
           \/ made > 0 /\ ClientError(llm_outcomes[made]) /\ cpc = "raised"
           \/ /\ made = max_retries
              /\ \A k \in 1..made : llm_outcomes[k].kind # "ok"
              /\ cpc = "raised"
              /\ call_raised = FailedAfter

\* a rate limit, a server error and a connection error used up three attempts
C34_Witness ==
    /\ cpc = "raised"
    /\ call_raised = FailedAfter
    /\ max_retries = 3
    /\ made = 3
    /\ llm_outcomes[1].code = 429
    /\ llm_outcomes[2].code = 503
    /\ llm_outcomes[3].kind = "Exception"

(***************************************************************************)
(* Termination of a run of the processing engine.                          *)
(***************************************************************************)
\* the run was interrupted, the process was killed, or the comment fetch or the
\* Result Sink write raised
Faulted ==
    \/ exit = "interrupt"
    \/ stop_reason \in {"interrupt", "crash"}
    \/ failed_stage \in {"comments", "persist"}

\* the run has ended normally with every selected item in the progress file
CompletedAll == pc = "done" /\ Range(posts_to_process) \subseteq progress_file

====
